---- MODULE Spec2Model ----
(***************************************************************************)
(* Model of the sync startup gate (src/sync/startup_controller.cc) and of  *)
(* the generic change pipeline                                             *)
(* (src/sync/glue/generic_change_processor.cc).                            *)
(*                                                                         *)
(* Three specifications share the module: SpecSC (and FairSC, with the     *)
(* message loop's fairness) runs the startup controller, SpecIn runs the   *)
(* inbound stage (apply / commit), SpecOut runs the outbound stage         *)
(* (ProcessSyncChanges).  Each leaves the other components' variables at   *)
(* their initial value.                                                    *)
(***************************************************************************)
EXTENDS Integers, Sequences, FiniteSets, TLC

VARIABLES
  \* ---- StartupController fields
  received_start_request_,
  setup_in_progress_,
  auto_start_enabled_,
  start_up_time_,
  start_backend_time_,
  token_service_,          \* TRUE iff the ProfileOAuth2TokenService* is non-null
  deferred_switch,         \* kSyncEnableDeferredStartup on the command line
  \* ---- collaborators read by TryStart
  sync_prefs_,             \* [IsManaged, IsStartSuppressed, HasSyncSetupCompleted]
  signin_,                 \* [has_username]
  refresh_token_,          \* RefreshTokenIsAvailable(account id to use)
  \* ---- message loop and clock
  now,
  tasks,                   \* posted OnFallbackStartupTimerExpired tasks
  \* ---- observation of the last controller operation
  backend_runs,            \* start_backend_.Run() calls since construction / Reset
  last,
  \* ---- GenericChangeProcessor (inbound stage)
  running,                 \* ChangeProcessor::running()
  local_service_,          \* TRUE while the WeakPtr<SyncableService> is valid
  syncer_changes_,         \* the staging buffer
  nodes,                   \* the tree store, by node id
  \* ---- observation of the pipeline's calls
  phase,                   \* which of apply / commit the engine called last
  in_last,                 \* the latest pipeline operation
  \* ---- GenericChangeProcessor (outbound stage)
  tree,                    \* the tree store the write transaction works on
  pending,                 \* the change list the local service is assembling
  out_last                 \* the latest outbound operation

scVars == <<received_start_request_, setup_in_progress_, auto_start_enabled_,
            start_up_time_, start_backend_time_, token_service_,
            deferred_switch, sync_prefs_, signin_, refresh_token_, now, tasks,
            backend_runs, last>>

inVars == <<running, local_service_, syncer_changes_, nodes, phase, in_last>>

outVars == <<tree, pending, out_last>>

vars == <<scVars, inVars, outVars>>

----------------------------------------------------------------------------
\* Bounds and program constants

\* kDeferredInitFallbackSeconds
kDeferredInitFallbackSeconds == 10

\* Number of clock advances explored.
MaxTicks == 2

\* The clock advances in steps of half the fallback timeout.
TickSeconds == kDeferredInitFallbackSeconds \div 2

\* base::Time() (is_null)
NullTime == 0

\* The controller is constructed one tick after the epoch.
FirstInstant == TickSeconds

MaxTime == FirstInstant + MaxTicks * TickSeconds

ModelTypes == {"PREFERENCES", "SESSIONS"}

STARTUP_BACKEND_DEFERRED == "STARTUP_BACKEND_DEFERRED"
STARTUP_IMMEDIATE == "STARTUP_IMMEDIATE"

TRIGGER_DATA_TYPE_REQUEST == "TRIGGER_DATA_TYPE_REQUEST"
TRIGGER_FALLBACK_TIMER == "TRIGGER_FALLBACK_TIMER"

----------------------------------------------------------------------------
\* Startup controller: helpers

\* What one controller operation did, beside changing the fields.
NoEffects(opname) ==
  [op |-> opname,
   try_start |-> "not called",    \* TryStart's return value, if it was called
   start_up |-> "not called",     \* the option StartUp was called with
   posted |-> FALSE,              \* PostDelayedTask was called
   ran_backend |-> FALSE,         \* start_backend_.Run() was called
   dcheck_failed |-> FALSE,
   histograms |-> {}]

\* The controller's mutable state, as a record the handlers transform.
Ctl(opname) ==
  [received_start_request_ |-> received_start_request_,
   setup_in_progress_ |-> setup_in_progress_,
   start_up_time_ |-> start_up_time_,
   start_backend_time_ |-> start_backend_time_,
   tasks |-> tasks,
   backend_runs |-> backend_runs,
   fx |-> NoEffects(opname)]

Install(s) ==
  /\ received_start_request_' = s.received_start_request_
  /\ setup_in_progress_' = s.setup_in_progress_
  /\ start_up_time_' = s.start_up_time_
  /\ start_backend_time_' = s.start_backend_time_
  /\ tasks' = s.tasks
  /\ backend_runs' = s.backend_runs
  /\ last' = s.fx

HasSwitchDeferredStartup == deferred_switch

fallback_timeout_ == kDeferredInitFallbackSeconds

Histogram(s, sample) ==
  [s EXCEPT !.fx.histograms = @ \cup {sample}]

\* base::MessageLoop::PostDelayedTask of the fallback handler, bound to a weak
\* pointer that is valid when posted.
PostFallbackTask(s) ==
  [s EXCEPT !.tasks = @ \cup {[deadline |-> now + fallback_timeout_,
                               valid |-> TRUE]},
            !.fx.posted = TRUE]

RunStartBackend(s) ==
  [s EXCEPT !.backend_runs = @ + 1, !.fx.ran_backend = TRUE]

Return(s, value) ==
  [s EXCEPT !.fx.try_start = IF value THEN "true" ELSE "false"]

StartUpSetsTime(s) ==
  IF s.start_up_time_ = NullTime THEN [s EXCEPT !.start_up_time_ = now] ELSE s

\* Mutant of StartUp: the command-line switch is not consulted.
StartUp_IgnoresSwitch(s, deferred_option) ==
  LET first_start == s.start_up_time_ = NullTime
      s1 == [StartUpSetsTime(s) EXCEPT !.fx.start_up = deferred_option]
  IN  IF deferred_option = STARTUP_BACKEND_DEFERRED
      THEN [s |-> IF first_start THEN PostFallbackTask(s1) ELSE s1,
            ret |-> FALSE]
      ELSE [s |-> IF s1.start_backend_time_ = NullTime
                  THEN RunStartBackend([s1 EXCEPT !.start_backend_time_ = now])
                  ELSE s1,
            ret |-> TRUE]

\* Mutant of StartUp: the backend is started without looking at
\* start_backend_time_.
StartUp_AlwaysRunsBackend(s, deferred_option) ==
  LET first_start == s.start_up_time_ = NullTime
      s1 == [StartUpSetsTime(s) EXCEPT !.fx.start_up = deferred_option]
  IN  IF deferred_option = STARTUP_BACKEND_DEFERRED /\ HasSwitchDeferredStartup
      THEN [s |-> IF first_start THEN PostFallbackTask(s1) ELSE s1,
            ret |-> FALSE]
      ELSE [s |-> RunStartBackend([s1 EXCEPT !.start_backend_time_ = now]),
            ret |-> TRUE]

\* Mutant of StartUp: the fallback task is posted by every deferred call.
StartUp_PostsEveryTime(s, deferred_option) ==
  LET s1 == [StartUpSetsTime(s) EXCEPT !.fx.start_up = deferred_option]
  IN  IF deferred_option = STARTUP_BACKEND_DEFERRED /\ HasSwitchDeferredStartup
      THEN [s |-> PostFallbackTask(s1), ret |-> FALSE]
      ELSE [s |-> IF s1.start_backend_time_ = NullTime
                  THEN RunStartBackend([s1 EXCEPT !.start_backend_time_ = now])
                  ELSE s1,
            ret |-> TRUE]

\* Mutant of StartUp: the deferred path reports a start.
StartUp_DeferredReturnsTrue(s, deferred_option) ==
  LET first_start == s.start_up_time_ = NullTime
      s1 == [StartUpSetsTime(s) EXCEPT !.fx.start_up = deferred_option]
  IN  IF deferred_option = STARTUP_BACKEND_DEFERRED /\ HasSwitchDeferredStartup
      THEN [s |-> IF first_start THEN PostFallbackTask(s1) ELSE s1,
            ret |-> TRUE]
      ELSE [s |-> IF s1.start_backend_time_ = NullTime
                  THEN RunStartBackend([s1 EXCEPT !.start_backend_time_ = now])
                  ELSE s1,
            ret |-> TRUE]

\* Mutant of StartUp: start_up_time_ is recorded on the deferred path only.
StartUp_NoStartUpTimeOnImmediate(s, deferred_option) ==
  LET first_start == s.start_up_time_ = NullTime
      s0 == [s EXCEPT !.fx.start_up = deferred_option]
  IN  IF deferred_option = STARTUP_BACKEND_DEFERRED /\ HasSwitchDeferredStartup
      THEN [s |-> IF first_start THEN PostFallbackTask(StartUpSetsTime(s0))
                  ELSE s0,
            ret |-> FALSE]
      ELSE [s |-> IF s0.start_backend_time_ = NullTime
                  THEN RunStartBackend([s0 EXCEPT !.start_backend_time_ = now])
                  ELSE s0,
            ret |-> TRUE]

\* StartupController::StartUp; .ret is its return value.
StartUp(s, deferred_option) ==
  LET first_start == s.start_up_time_ = NullTime
      s1 == [StartUpSetsTime(s) EXCEPT !.fx.start_up = deferred_option]
  IN  IF deferred_option = STARTUP_BACKEND_DEFERRED /\ HasSwitchDeferredStartup
      THEN [s |-> IF first_start THEN PostFallbackTask(s1) ELSE s1,
            ret |-> FALSE]
      ELSE [s |-> IF s1.start_backend_time_ = NullTime
                  THEN RunStartBackend([s1 EXCEPT !.start_backend_time_ = now])
                  ELSE s1,
            ret |-> TRUE]

\* Mutant of TryStartDecision: the test of received_start_request_ is inverted.
TryStartDecision_Inverted(s) ==
  IF sync_prefs_.HasSyncSetupCompleted
  THEN IF s.received_start_request_
       THEN StartUp(s, STARTUP_BACKEND_DEFERRED)
       ELSE StartUp(s, STARTUP_IMMEDIATE)
  ELSE IF s.setup_in_progress_ \/ auto_start_enabled_
       THEN StartUp(s, STARTUP_IMMEDIATE)
       ELSE [s |-> s, ret |-> FALSE]

\* The decision part of TryStart, after the pre-checks.
TryStartDecision(s) ==
  IF sync_prefs_.HasSyncSetupCompleted
  THEN IF ~s.received_start_request_
       THEN StartUp(s, STARTUP_BACKEND_DEFERRED)
       ELSE StartUp(s, STARTUP_IMMEDIATE)
  ELSE IF s.setup_in_progress_ \/ auto_start_enabled_
       THEN StartUp(s, STARTUP_IMMEDIATE)
       ELSE [s |-> s, ret |-> FALSE]

\* Mutant of TryStart: the refresh token is not checked.
TryStart_NoTokenCheck(s) ==
  IF sync_prefs_.IsManaged THEN Return(s, FALSE)
  ELSE IF sync_prefs_.IsStartSuppressed THEN Return(s, FALSE)
  ELSE IF ~signin_.has_username THEN Return(s, FALSE)
  ELSE IF ~token_service_ THEN Return(s, FALSE)
  ELSE LET r == TryStartDecision(Histogram(s, <<"Sync.RefreshTokenAvailable", 1>>))
       IN  Return(r.s, r.ret)

\* StartupController::TryStart
TryStart(s) ==
  IF sync_prefs_.IsManaged THEN Return(s, FALSE)
  ELSE IF sync_prefs_.IsStartSuppressed THEN Return(s, FALSE)
  ELSE IF ~signin_.has_username THEN Return(s, FALSE)
  ELSE IF ~token_service_ THEN Return(s, FALSE)
  ELSE IF ~refresh_token_ THEN Return(s, FALSE)
  ELSE LET r == TryStartDecision(Histogram(s, <<"Sync.RefreshTokenAvailable", 1>>))
       IN  Return(r.s, r.ret)

\* Mutant of OnFallbackStartupTimerExpired: start_backend_time_ is not
\* re-checked.
OnFallbackStartupTimerExpired_NoRecheck(s) ==
  LET s2 == Histogram(
              Histogram(s, <<"Sync.Startup.TimeDeferred",
                             now - s.start_up_time_>>),
              <<"Sync.Startup.DeferredInitTrigger", TRIGGER_FALLBACK_TIMER>>)
  IN  TryStart([s2 EXCEPT !.received_start_request_ = TRUE])

\* Mutant of OnFallbackStartupTimerExpired: TryStart is not called.
OnFallbackStartupTimerExpired_NoTryStart(s) ==
  IF s.start_backend_time_ # NullTime THEN s
  ELSE [Histogram(
          Histogram(s, <<"Sync.Startup.TimeDeferred",
                         now - s.start_up_time_>>),
          <<"Sync.Startup.DeferredInitTrigger", TRIGGER_FALLBACK_TIMER>>)
        EXCEPT !.received_start_request_ = TRUE]

\* StartupController::OnFallbackStartupTimerExpired
OnFallbackStartupTimerExpired(s) ==
  LET s0 == IF HasSwitchDeferredStartup THEN s
            ELSE [s EXCEPT !.fx.dcheck_failed = TRUE]
  IN  IF s0.start_backend_time_ # NullTime THEN s0
      ELSE LET s1 == IF s0.start_up_time_ # NullTime THEN s0
                     ELSE [s0 EXCEPT !.fx.dcheck_failed = TRUE]
               s2 == Histogram(
                       Histogram(s1, <<"Sync.Startup.TimeDeferred",
                                       now - s1.start_up_time_>>),
                       <<"Sync.Startup.DeferredInitTrigger",
                         TRIGGER_FALLBACK_TIMER>>)
           IN  TryStart([s2 EXCEPT !.received_start_request_ = TRUE])

\* Mutant of OnDataTypeRequestsSyncStartup: received_start_request_ is not set.
OnDataTypeRequestsSyncStartup_NoRequest(s, type) ==
  IF ~HasSwitchDeferredStartup THEN s
  ELSE IF s.start_backend_time_ # NullTime THEN s
  ELSE TryStart(s)

\* Mutant of OnDataTypeRequestsSyncStartup: start_backend_time_ is not tested.
OnDataTypeRequestsSyncStartup_NoStartedCheck(s, type) ==
  IF ~HasSwitchDeferredStartup THEN s
  ELSE LET s1 == IF s.start_up_time_ # NullTime
                 THEN Histogram(
                        Histogram(
                          Histogram(s, <<"Sync.Startup.TimeDeferred",
                                         now - s.start_up_time_>>),
                          <<"Sync.Startup.TypeTriggeringInit", type>>),
                        <<"Sync.Startup.DeferredInitTrigger",
                          TRIGGER_DATA_TYPE_REQUEST>>)
                 ELSE s
       IN  TryStart([s1 EXCEPT !.received_start_request_ = TRUE])

\* Mutant of OnDataTypeRequestsSyncStartup: the command-line switch is not
\* tested.
OnDataTypeRequestsSyncStartup_NoSwitchCheck(s, type) ==
  IF s.start_backend_time_ # NullTime THEN s
  ELSE LET s1 == IF s.start_up_time_ # NullTime
                 THEN Histogram(
                        Histogram(
                          Histogram(s, <<"Sync.Startup.TimeDeferred",
                                         now - s.start_up_time_>>),
                          <<"Sync.Startup.TypeTriggeringInit", type>>),
                        <<"Sync.Startup.DeferredInitTrigger",
                          TRIGGER_DATA_TYPE_REQUEST>>)
                 ELSE s
       IN  TryStart([s1 EXCEPT !.received_start_request_ = TRUE])

\* Mutant of OnDataTypeRequestsSyncStartup: the request is forgotten when
\* the TryStart it triggers does not start the backend.
OnDataTypeRequestsSyncStartup_ForgetsOnFailure(s, type) ==
  IF ~HasSwitchDeferredStartup THEN s
  ELSE IF s.start_backend_time_ # NullTime THEN s
  ELSE LET s1 == IF s.start_up_time_ # NullTime
                 THEN Histogram(
                        Histogram(
                          Histogram(s, <<"Sync.Startup.TimeDeferred",
                                         now - s.start_up_time_>>),
                          <<"Sync.Startup.TypeTriggeringInit", type>>),
                        <<"Sync.Startup.DeferredInitTrigger",
                          TRIGGER_DATA_TYPE_REQUEST>>)
                 ELSE s
           r == TryStart([s1 EXCEPT !.received_start_request_ = TRUE])
       IN  IF r.fx.try_start = "true" THEN r
           ELSE [r EXCEPT !.received_start_request_ = FALSE]

\* StartupController::OnDataTypeRequestsSyncStartup
OnDataTypeRequestsSyncStartup(s, type) ==
  IF ~HasSwitchDeferredStartup THEN s
  ELSE IF s.start_backend_time_ # NullTime THEN s
  ELSE LET s1 == IF s.start_up_time_ # NullTime
                 THEN Histogram(
                        Histogram(
                          Histogram(s, <<"Sync.Startup.TimeDeferred",
                                         now - s.start_up_time_>>),
                          <<"Sync.Startup.TypeTriggeringInit", type>>),
                        <<"Sync.Startup.DeferredInitTrigger",
                          TRIGGER_DATA_TYPE_REQUEST>>)
                 ELSE s
       IN  TryStart([s1 EXCEPT !.received_start_request_ = TRUE])

\* weak_factory_.InvalidateWeakPtrs(): every posted task loses its receiver.
InvalidateWeakPtrs(s) ==
  [s EXCEPT !.tasks = {[t EXCEPT !.valid = FALSE] : t \in @}]

\* Mutant of Reset: the weak pointers are not invalidated.
Reset_KeepsTimers(s) ==
  [s EXCEPT !.received_start_request_ = FALSE,
            !.setup_in_progress_ = FALSE,
            !.start_up_time_ = NullTime,
            !.start_backend_time_ = NullTime,
            !.backend_runs = 0]

\* Mutant of Reset: start_up_time_ is kept.
Reset_KeepsStartUpTime(s) ==
  InvalidateWeakPtrs(
    [s EXCEPT !.received_start_request_ = FALSE,
              !.setup_in_progress_ = FALSE,
              !.start_backend_time_ = NullTime,
              !.backend_runs = 0])

\* StartupController::Reset
Reset(s) ==
  InvalidateWeakPtrs(
    [s EXCEPT !.received_start_request_ = FALSE,
              !.setup_in_progress_ = FALSE,
              !.start_up_time_ = NullTime,
              !.start_backend_time_ = NullTime,
              !.backend_runs = 0])

\* StartupController::GetBackendInitializationStateString
GetBackendInitializationStateString ==
  IF start_backend_time_ # NullTime THEN "Started"
  ELSE IF start_up_time_ # NullTime THEN "Deferred"
  ELSE "Not started"

----------------------------------------------------------------------------
\* Startup controller: actions

scConfig == <<auto_start_enabled_, token_service_, deferred_switch>>
scEnv == <<sync_prefs_, signin_, refresh_token_>>

SyncPrefsStates ==
  [IsManaged : BOOLEAN, IsStartSuppressed : BOOLEAN,
   HasSyncSetupCompleted : BOOLEAN]

\* StartupController::StartupController
ConstructSC ==
  /\ received_start_request_ = FALSE
  /\ setup_in_progress_ = FALSE
  /\ auto_start_enabled_ \in BOOLEAN
  /\ start_up_time_ = NullTime
  /\ start_backend_time_ = NullTime
  /\ token_service_ \in BOOLEAN
  /\ deferred_switch \in BOOLEAN
  /\ sync_prefs_ \in SyncPrefsStates
  /\ signin_ \in [has_username : BOOLEAN]
  /\ refresh_token_ \in BOOLEAN
  /\ now = FirstInstant
  /\ tasks = {}
  /\ backend_runs = 0
  /\ last = NoEffects("constructed")

CallTryStart ==
  /\ Install(TryStart(Ctl("TryStart")))
  /\ UNCHANGED <<scConfig, scEnv, now, inVars, outVars>>

CallReset ==
  /\ Install(Reset(Ctl("Reset")))
  /\ UNCHANGED <<scConfig, scEnv, now, inVars, outVars>>

\* StartupController::set_setup_in_progress
CallSetSetupInProgress ==
  \E in_progress \in BOOLEAN :
    /\ Install([Ctl("set_setup_in_progress") EXCEPT
                  !.setup_in_progress_ = in_progress])
    /\ UNCHANGED <<scConfig, scEnv, now, inVars, outVars>>

CallOnDataTypeRequestsSyncStartup ==
  \E type \in ModelTypes :
    /\ Install(OnDataTypeRequestsSyncStartup(
                 Ctl("OnDataTypeRequestsSyncStartup"), type))
    /\ UNCHANGED <<scConfig, scEnv, now, inVars, outVars>>

\* The message loop runs a due fallback task whose weak pointer is valid.
RunFallbackTask ==
  \E t \in tasks :
    /\ t.valid
    /\ t.deadline <= now
    /\ Install(OnFallbackStartupTimerExpired(
                 [Ctl("OnFallbackStartupTimerExpired") EXCEPT
                    !.tasks = @ \ {t}]))
    /\ UNCHANGED <<scConfig, scEnv, now, inVars, outVars>>

\* The message loop drops a due task whose weak pointer was invalidated.
DropCancelledTask ==
  \E t \in tasks :
    /\ ~t.valid
    /\ t.deadline <= now
    /\ Install([Ctl("cancelled task dropped") EXCEPT !.tasks = @ \ {t}])
    /\ UNCHANGED <<scConfig, scEnv, now, inVars, outVars>>

Tick ==
  /\ now + TickSeconds <= MaxTime
  /\ now' = now + TickSeconds
  /\ last' = NoEffects("tick")
  /\ UNCHANGED <<received_start_request_, setup_in_progress_, start_up_time_,
                 start_backend_time_, tasks, backend_runs, scConfig, scEnv, inVars, outVars>>

\* Preferences, sign-in state and token availability change outside the
\* controller, one value at a time.
EnvironmentChanges ==
  /\ \/ /\ \E f \in {"IsManaged", "IsStartSuppressed", "HasSyncSetupCompleted"} :
              sync_prefs_' = [sync_prefs_ EXCEPT ![f] = ~@]
        /\ UNCHANGED <<signin_, refresh_token_>>
     \/ /\ signin_' = [has_username |-> ~signin_.has_username]
        /\ UNCHANGED <<sync_prefs_, refresh_token_>>
     \/ /\ refresh_token_' = ~refresh_token_
        /\ UNCHANGED <<sync_prefs_, signin_>>
  /\ last' = NoEffects("environment")
  /\ UNCHANGED <<received_start_request_, setup_in_progress_, start_up_time_,
                 start_backend_time_, tasks, backend_runs, scConfig, now, inVars, outVars>>

NextSC ==
  \/ CallTryStart
  \/ CallReset
  \/ CallSetSetupInProgress
  \/ CallOnDataTypeRequestsSyncStartup
  \/ RunFallbackTask
  \/ DropCancelledTask
  \/ Tick
  \/ EnvironmentChanges

----------------------------------------------------------------------------
\* Inbound stage: data

\* Largest record list handed to ApplyChangesFromSyncModel.
MaxBatch == 2

NodeIds == {7, 9}

\* Specifics carried inline by a change record.
RecordSpecifics == {"rec"}

\* Specifics a node of the store may hold: node 7 is seen with two payloads.
NodeSpecifics(id) == IF id = 7 THEN {"s7", "s7_now"} ELSE {"s9"}

ACTION_ADD == "ACTION_ADD"
ACTION_UPDATE == "ACTION_UPDATE"
ACTION_DELETE == "ACTION_DELETE"

INIT_OK == "INIT_OK"
INIT_FAILED_ENTRY_NOT_GOOD == "INIT_FAILED_ENTRY_NOT_GOOD"

\* csync::ChangeRecord
ChangeRecords ==
  [action : {ACTION_ADD, ACTION_UPDATE, ACTION_DELETE}, id : NodeIds,
   specifics : RecordSpecifics]

RecordLists == UNION {[1..n -> ChangeRecords] : n \in 0..MaxBatch}

\* A node of the store as a ReadNode sees it: the lookup's result and, when
\* the lookup succeeds, the entity specifics.
NodeStates(id) ==
  [lookup : {INIT_OK}, specifics : NodeSpecifics(id)] \cup
  [lookup : {INIT_FAILED_ENTRY_NOT_GOOD}, specifics : {"none"}]

StoreStates == {s \in [NodeIds -> UNION {NodeStates(id) : id \in NodeIds}] :
                  \A id \in NodeIds : s[id] \in NodeStates(id)}

\* csync::SyncData::CreateRemoteData
CreateRemoteData(id, specifics) ==
  [local |-> FALSE, id |-> id, specifics |-> specifics]

\* csync::SyncChange
SyncChange(change_type, sync_data) ==
  [change_type |-> change_type, sync_data |-> sync_data]

\* csync::SyncError()
NoError == [set |-> FALSE]

\* csync::SyncError(location, message, type); a message is the sequence of
\* the strings the code concatenates.
SyncError(message, type) == [set |-> TRUE, message |-> message, type |-> type]

\* csync::SyncData::GetDataType of the data the inbound stage stages: the
\* type is read off the specifics.
StagedDataType(data) ==
  CASE data.specifics \in {"s7", "s7_now"} -> "PREFERENCES"
    [] OTHER -> "SESSIONS"

\* What the local service's ProcessSyncChanges may return to commit.
ServiceAnswers ==
  {NoError, SyncError(<<"local service: bad data">>, "PREFERENCES")}

\* ReadNode::InitByIdLookup
InitByIdLookup(id) == nodes[id].lookup

\* ReadNode::GetEntitySpecifics
GetEntitySpecifics(id) == nodes[id].specifics

\* The pipeline's fields, as an operation finds them.
Pipeline(r, l, s) == [running |-> r, local_service_ |-> l, syncer_changes_ |-> s]

NoPipeline == Pipeline(FALSE, FALSE, <<>>)

\* What one pipeline operation did, beside changing the fields.
NoCalls(opname) ==
  [op |-> opname,
   records |-> <<>>,           \* apply: the record list it was given
   lookup_failed |-> FALSE,    \* apply: it returned at a failed lookup
   follows |-> "other",        \* commit: the engine's previous call
   delivered |-> <<>>,         \* the lists given to process_sync_changes
   errors |-> 0,               \* OnSingleDatatypeUnrecoverableError calls
   dcheck_failed |-> FALSE,
   lookups |-> <<>>,           \* apply: the ids it looked up, in order
   answer |-> NoError,         \* commit: what process_sync_changes returned
   error |-> NoError,          \* commit: the error it built or was returned
   reported |-> <<>>,          \* messages given to the error handler
   deliveries |-> 0,           \* process_sync_changes calls since the last
                               \* apply, this operation's included
   before |-> NoPipeline]      \* commit: the pipeline's fields at entry

----------------------------------------------------------------------------
\* Inbound stage: operations

\* Mutant of PushBack: the entry is put in front.
PushBack_Front(list, change) == <<change>> \o list

\* syncer_changes_.push_back
PushBack(list, change) == Append(list, change)

\* Mutant of StagedAction: every record that is not a delete is an update.
StagedAction_AlwaysUpdate(record) == ACTION_UPDATE

\* The action of a staged Add/Update entry.
StagedAction(record) ==
  IF record.action = ACTION_ADD THEN ACTION_ADD ELSE ACTION_UPDATE

\* The early return of the failed lookup: the error is reported and the
\* function returns; the buffer is left as it is.
LookupFailureReturn(st) ==
  [st EXCEPT !.errors = @ + 1, !.lookup_failed = TRUE]

\* The loop of ApplyChangesFromSyncModel over the records still to handle.
RECURSIVE ApplyLoop(_, _)
ApplyLoop(st, records) ==
  IF records = <<>> THEN st
  ELSE LET it == Head(records)
       IN  IF it.action = ACTION_DELETE
           THEN ApplyLoop(
                  [st EXCEPT !.syncer_changes_ =
                     PushBack(@, SyncChange(ACTION_DELETE,
                                   CreateRemoteData(it.id, it.specifics)))],
                  Tail(records))
           ELSE LET s1 == [st EXCEPT !.lookups = Append(@, it.id)]
                IN  IF InitByIdLookup(it.id) # INIT_OK
                    THEN LookupFailureReturn(s1)
                    ELSE ApplyLoop(
                           [s1 EXCEPT !.syncer_changes_ =
                              PushBack(@, SyncChange(StagedAction(it),
                                            CreateRemoteData(it.id,
                                              GetEntitySpecifics(it.id))))],
                           Tail(records))

\* GenericChangeProcessor::ApplyChangesFromSyncModel
ApplyChangesFromSyncModel(changes) ==
  ApplyLoop([syncer_changes_ |-> syncer_changes_, errors |-> 0,
             lookup_failed |-> FALSE, lookups |-> <<>>],
            changes)

\* Mutant of CommitServiceDestroyed: the type is the last staged entry's.
CommitServiceDestroyed_LastEntry(st) ==
  LET type == StagedDataType(
                st.syncer_changes_[Len(st.syncer_changes_)].sync_data)
      error == SyncError(<<"Local service destroyed.">>, type)
  IN  [st EXCEPT !.errors = @ + 1,
                 !.error = error,
                 !.reported = Append(@, error.message)]

\* The branch of CommitChangesFromSyncModel taken when local_service_ is gone.
CommitServiceDestroyed(st) ==
  LET type == StagedDataType(st.syncer_changes_[1].sync_data)
      error == SyncError(<<"Local service destroyed.">>, type)
  IN  [st EXCEPT !.errors = @ + 1,
                 !.error = error,
                 !.reported = Append(@, error.message)]

\* Mutant of CommitDeliver: the staged list is not cleared.
CommitDeliver_KeepsStaged(st, service_error) ==
  [st EXCEPT !.delivered = Append(@, st.syncer_changes_),
             !.answer = service_error,
             !.error = service_error,
             !.errors = IF service_error.set THEN @ + 1 ELSE @,
             !.reported = IF service_error.set
                          THEN Append(@, service_error.message) ELSE @]

\* Mutant of CommitDeliver: the specifics of the Add/Update entries are read
\* again from the nodes.
CommitDeliver_ReadsAgain(st, service_error) ==
  [st EXCEPT !.delivered =
               Append(@, [i \in 1..Len(st.syncer_changes_) |->
                            LET c == st.syncer_changes_[i]
                            IN  IF c.change_type = ACTION_DELETE THEN c
                                ELSE SyncChange(c.change_type,
                                       CreateRemoteData(c.sync_data.id,
                                         GetEntitySpecifics(c.sync_data.id)))]),
             !.answer = service_error,
             !.error = service_error,
             !.syncer_changes_ = <<>>,
             !.errors = IF service_error.set THEN @ + 1 ELSE @,
             !.reported = IF service_error.set
                          THEN Append(@, service_error.message) ELSE @]

\* Mutant of CommitDeliver: the returned error is dropped.
CommitDeliver_DropsError(st, service_error) ==
  [st EXCEPT !.delivered = Append(@, st.syncer_changes_),
             !.answer = service_error,
             !.error = service_error,
             !.syncer_changes_ = <<>>]

\* The branch of CommitChangesFromSyncModel that delivers; service_error is
\* the error the local service's ProcessSyncChanges returned.
CommitDeliver(st, service_error) ==
  [st EXCEPT !.delivered = Append(@, st.syncer_changes_),
             !.answer = service_error,
             !.error = service_error,
             !.syncer_changes_ = <<>>,
             !.errors = IF service_error.set THEN @ + 1 ELSE @,
             !.reported = IF service_error.set
                          THEN Append(@, service_error.message) ELSE @]

\* Mutant of CommitChangesFromSyncModel: running() is not tested.
CommitChangesFromSyncModel_NoRunningCheck(service_error) ==
  LET st == [syncer_changes_ |-> syncer_changes_, errors |-> 0,
             delivered |-> <<>>, answer |-> NoError, error |-> NoError,
             reported |-> <<>>]
  IN  IF syncer_changes_ = <<>> THEN st
      ELSE IF ~local_service_ THEN CommitServiceDestroyed(st)
      ELSE CommitDeliver(st, service_error)

\* GenericChangeProcessor::CommitChangesFromSyncModel
CommitChangesFromSyncModel(service_error) ==
  LET st == [syncer_changes_ |-> syncer_changes_, errors |-> 0,
             delivered |-> <<>>, answer |-> NoError, error |-> NoError,
             reported |-> <<>>]
  IN  IF ~running THEN st
      ELSE IF syncer_changes_ = <<>> THEN st
      ELSE IF ~local_service_ THEN CommitServiceDestroyed(st)
      ELSE CommitDeliver(st, service_error)

----------------------------------------------------------------------------
\* Inbound stage: actions

\* GenericChangeProcessor::GenericChangeProcessor
ConstructIn ==
  /\ running = FALSE
  /\ local_service_ = TRUE
  /\ syncer_changes_ = <<>>
  /\ nodes \in StoreStates
  /\ phase = "idle"
  /\ in_last = NoCalls("constructed")

\* The sync engine calls apply while the pipeline runs, once the previous
\* batch's commit was called.  The entry assertions hold.
CallApply ==
  /\ running
  /\ phase \in {"idle", "committed"}
  /\ syncer_changes_ = <<>>
  /\ \E changes \in RecordLists :
      \E st \in {ApplyChangesFromSyncModel(changes)} :
        /\ syncer_changes_' = st.syncer_changes_
        /\ phase' = IF st.lookup_failed THEN "apply failed" ELSE "applied"
        /\ in_last' = [NoCalls("ApplyChangesFromSyncModel") EXCEPT
                         !.records = changes,
                         !.lookup_failed = st.lookup_failed,
                         !.lookups = st.lookups,
                         !.errors = st.errors]
        /\ UNCHANGED <<running, local_service_, nodes, scVars, outVars>>

\* The same call with entries still staged: DCHECK(syncer_changes_.empty())
\* fails and the run ends there.
ApplyAssertionFails ==
  /\ running
  /\ phase \in {"idle", "committed"}
  /\ syncer_changes_ # <<>>
  /\ phase' = "aborted"
  /\ in_last' = [NoCalls("ApplyChangesFromSyncModel") EXCEPT
                   !.dcheck_failed = TRUE,
                   !.deliveries = in_last.deliveries]
  /\ UNCHANGED <<running, local_service_, syncer_changes_, nodes, scVars, outVars>>

\* The sync engine calls commit; the local service, when it is reached,
\* answers service_error.
CallCommit ==
  \E service_error \in ServiceAnswers :
    LET st == CommitChangesFromSyncModel(service_error)
    IN  /\ phase # "aborted"
        /\ st.delivered = <<>> => service_error = NoError
        /\ syncer_changes_' = st.syncer_changes_
        /\ phase' = "committed"
        /\ in_last' = [NoCalls("CommitChangesFromSyncModel") EXCEPT
                         !.follows = phase,
                         !.before = Pipeline(running, local_service_,
                                             syncer_changes_),
                         !.delivered = st.delivered,
                         !.answer = st.answer,
                         !.error = st.error,
                         !.reported = st.reported,
                         !.deliveries = in_last.deliveries + Len(st.delivered),
                         !.errors = st.errors]
        /\ UNCHANGED <<running, local_service_, nodes, scVars, outVars>>

\* ChangeProcessor::Start
Start ==
  /\ ~running
  /\ running' = TRUE
  /\ in_last' = [NoCalls("Start") EXCEPT !.deliveries = in_last.deliveries]
  /\ UNCHANGED <<local_service_, syncer_changes_, nodes, phase, scVars, outVars>>

\* ChangeProcessor::Stop
Stop ==
  /\ running
  /\ running' = FALSE
  /\ in_last' = [NoCalls("Stop") EXCEPT !.deliveries = in_last.deliveries]
  /\ UNCHANGED <<local_service_, syncer_changes_, nodes, phase, scVars, outVars>>

\* The local service is torn down: the weak pointer becomes invalid.
LocalServiceDestroyed ==
  /\ local_service_
  /\ local_service_' = FALSE
  /\ in_last' = [NoCalls("local service destroyed") EXCEPT !.deliveries = in_last.deliveries]
  /\ UNCHANGED <<running, syncer_changes_, nodes, phase, scVars, outVars>>

\* The sync engine changes the store between the pipeline's operations.
StoreChanges ==
  /\ nodes' \in StoreStates
  /\ nodes' # nodes
  /\ in_last' = [NoCalls("store changed") EXCEPT !.deliveries = in_last.deliveries]
  /\ UNCHANGED <<running, local_service_, syncer_changes_, phase, scVars, outVars>>

----------------------------------------------------------------------------
\* Outbound stage: data

\* Longest change list handed to ProcessSyncChanges.
MaxChanges == 3

\* csync::kInvalidId
kInvalidId == 0

\* A change whose action is neither Add, Update nor Delete.
ACTION_INVALID == "ACTION_INVALID"

INIT_FAILED_ENTRY_IS_DEL == "INIT_FAILED_ENTRY_IS_DEL"
INIT_FAILED_DECRYPT_IF_NECESSARY == "INIT_FAILED_DECRYPT_IF_NECESSARY"
INIT_FAILED_PRECONDITION == "INIT_FAILED_PRECONDITION"

INIT_SUCCESS == "INIT_SUCCESS"
INIT_FAILED_EMPTY_TAG == "INIT_FAILED_EMPTY_TAG"
INIT_FAILED_ENTRY_ALREADY_EXISTS == "INIT_FAILED_ENTRY_ALREADY_EXISTS"
INIT_FAILED_COULD_NOT_CREATE_ENTRY == "INIT_FAILED_COULD_NOT_CREATE_ENTRY"
INIT_FAILED_SET_PREDECESSOR == "INIT_FAILED_SET_PREDECESSOR"

\* A lookup or creation result the switches of the pipeline do not list.
INIT_FAILED_UNLISTED == "INIT_FAILED_UNLISTED"

\* syncable::ModelTypeToString
ModelTypeToString(type) ==
  IF type = "PREFERENCES" THEN "Preferences" ELSE "Sessions"

\* syncable::ModelTypeToRootTag
ModelTypeToRootTag(type) ==
  IF type = "PREFERENCES" THEN "google_chrome_preferences"
  ELSE "google_chrome_sessions"

\* sync_pb::EntitySpecifics: the datatype it belongs to, its content, and
\* whether it carries the encrypted blob.
EntitySpecifics(type, value, has_encrypted) ==
  [type |-> type, value |-> value, has_encrypted |-> has_encrypted]

\* The specifics of an entry that was never written.
DefaultSpecifics == [type |-> "UNSPECIFIED", value |-> "", has_encrypted |-> FALSE]

\* csync::SyncData::CreateLocalData
CreateLocalData(tag, title, specifics) ==
  [local |-> TRUE, tag |-> tag, title |-> title, specifics |-> specifics]

\* SyncData::IsLocal
IsLocal(data) == data.local

\* SyncData::GetDataType: the datatype of the specifics.
GetDataType(data) == data.specifics.type

\* The client tags local changes carry; the empty tag is not a legal one.
LocalTags == {"", "k"}

\* The changes a local service hands over: Add, Update, Delete and unset
\* changes with local preference data, and the Delete of a remote session
\* node, by its id or by an id that is not one.
OutChanges ==
  {SyncChange(ACTION_ADD,
              CreateLocalData(tag, "hello",
                              EntitySpecifics("PREFERENCES", "x", FALSE))) :
     tag \in LocalTags}
  \cup
  {SyncChange(a, CreateLocalData(tag, "bye",
                                 EntitySpecifics("PREFERENCES", "y", FALSE))) :
     a \in {ACTION_UPDATE, ACTION_DELETE}, tag \in LocalTags}
  \cup
  {SyncChange(ACTION_INVALID,
              CreateLocalData("k", "bye",
                              EntitySpecifics("PREFERENCES", "y", FALSE))),
   SyncChange(ACTION_DELETE,
              CreateRemoteData(9, EntitySpecifics("SESSIONS", "s", FALSE))),
   SyncChange(ACTION_DELETE,
              CreateRemoteData(kInvalidId,
                               EntitySpecifics("SESSIONS", "s", FALSE)))}

\* The entry of the store with a given datatype and client tag, kInvalidId
\* if the store has none: node 7 is the preference "k", node 9 the session "k".
SlotOf(type, tag) ==
  IF tag # "k" THEN kInvalidId
  ELSE IF type = "PREFERENCES" THEN 7
  ELSE IF type = "SESSIONS" THEN 9
  ELSE kInvalidId

\* An entry of the tree store.  An entry that was never created is absent; a
\* removed entry stays as a tombstone, whose content no lookup gives access
\* to; an entry whose content cannot be decrypted exists but does not load,
\* and keeps the ciphertext in the encrypted blob of its specifics or (as
\* passwords do) elsewhere; an unloadable entry fails to load with a result
\* the pipeline does not list.
AbsentNode == [status |-> "absent", title |-> "", specifics |-> DefaultSpecifics]
Tombstone == [status |-> "deleted", title |-> "", specifics |-> DefaultSpecifics]
LiveNode(title, specifics) ==
  [status |-> "live", title |-> title, specifics |-> specifics]
UndecryptableNode(type, has_encrypted) ==
  [status |-> "undecryptable", title |-> "encrypted",
   specifics |-> EntitySpecifics(type, "ciphertext", has_encrypted)]
UnloadableNode(type) ==
  [status |-> "unloadable", title |-> "",
   specifics |-> EntitySpecifics(type, "s", FALSE)]

\* The states the store can be in when the pipeline is constructed.
EntryStates(id) ==
  IF id = 7
  THEN {AbsentNode, Tombstone, UndecryptableNode("PREFERENCES", TRUE),
        UndecryptableNode("PREFERENCES", FALSE), UnloadableNode("PREFERENCES"),
        LiveNode("hello", EntitySpecifics("PREFERENCES", "x", FALSE))}
  ELSE {AbsentNode, Tombstone, UndecryptableNode("SESSIONS", TRUE),
        UnloadableNode("SESSIONS"),
        LiveNode("tab", EntitySpecifics("SESSIONS", "s", FALSE))}

TreeStates ==
  {t \in [NodeIds -> UNION {EntryStates(id) : id \in NodeIds}] :
     \A id \in NodeIds : t[id] \in EntryStates(id)}

\* What the store and the cryptographer answer during one call: the result
\* of the type root's lookup, the result of a creation the store accepts to
\* attempt, the cryptographer's encrypted types and CanDecrypt, and whether
\* the build has DCHECKs on.
OutEnvs ==
  [root_lookup : {INIT_OK, INIT_FAILED_ENTRY_NOT_GOOD},
   creation : {INIT_SUCCESS, INIT_FAILED_COULD_NOT_CREATE_ENTRY,
               INIT_FAILED_SET_PREDECESSOR, INIT_FAILED_UNLISTED},
   encrypted_types : SUBSET ModelTypes,
   can_decrypt : BOOLEAN,
   dcheck_is_on : BOOLEAN]

\* The answers of a healthy store and an idle cryptographer, release build.
DefaultEnv ==
  [root_lookup |-> INIT_OK, creation |-> INIT_SUCCESS,
   encrypted_types |-> {}, can_decrypt |-> FALSE, dcheck_is_on |-> FALSE]

\* What one iteration of the loop of ProcessSyncChanges did.
NewStep(tr, change) ==
  [change |-> change,
   before |-> tr,              \* the tree when the iteration starts
   tree |-> tr,                \* the tree as the iteration leaves it
   error |-> NoError,          \* the error the iteration returns with
   handler |-> <<>>,           \* OnSingleDatatypeUnrecoverableError messages
   lookups |-> <<>>,           \* node lookups, in order
   creations |-> <<>>,         \* InitUniqueByCreation calls, in order
   mutations |-> <<>>,         \* tree mutations, in order
   crypto_reads |-> 0,         \* GetCryptographer calls
   events |-> <<>>,            \* store accesses and transaction events
   notreached |-> FALSE,       \* a NOTREACHED() was executed
   check_failed |-> FALSE]     \* CHECK(specifics.has_encrypted()) failed

NoStoreAnswer == [root_lookup |-> INIT_OK, children |-> <<>>]

NoCryptoAnswer == [encrypted_types |-> {}, is_ready |-> FALSE]

\* What one outbound operation did.
NoOut(opname) ==
  [op |-> opname,
   list |-> <<>>,              \* the change list it was given
   before |-> tree,            \* the tree at entry
   tree |-> tree,              \* the tree as the operation leaves it
   env |-> DefaultEnv,         \* the answers it read
   returned |-> TRUE,          \* FALSE: the process died in the call
   error |-> NoError,          \* the returned error
   steps |-> <<>>,             \* the iterations of the loop, in order
   events |-> <<>>,            \* transactions opened and closed, and the
                               \* store accesses, in order
   type |-> "UNSPECIFIED",     \* the type argument of a read operation
   input |-> <<>>,             \* current_sync_data at entry
   output |-> <<>>,            \* current_sync_data at return
   value |-> FALSE,            \* the boolean a read operation returns
   has_nodes |-> FALSE,        \* *has_nodes at return
   store |-> NoStoreAnswer,    \* the store's answers to a read operation
   crypto |-> NoCryptoAnswer]  \* the cryptographer's answers to it

----------------------------------------------------------------------------
\* Outbound stage: the tree store's node interface

\* The result of loading an entry.
LookupResult(node) ==
  CASE node.status = "live" -> INIT_OK
    [] node.status = "absent" -> INIT_FAILED_ENTRY_NOT_GOOD
    [] node.status = "deleted" -> INIT_FAILED_ENTRY_IS_DEL
    [] node.status = "undecryptable" -> INIT_FAILED_DECRYPT_IF_NECESSARY
    [] OTHER -> INIT_FAILED_UNLISTED

\* BaseNode::InitByClientTagLookup
InitByClientTagLookup(tr, type, tag) ==
  IF tag = "" THEN INIT_FAILED_PRECONDITION
  ELSE IF SlotOf(type, tag) = kInvalidId THEN INIT_FAILED_ENTRY_NOT_GOOD
  ELSE LookupResult(tr[SlotOf(type, tag)])

\* WriteNode::InitByIdLookup
WriteNodeInitByIdLookup(tr, id) ==
  IF id = kInvalidId THEN INIT_FAILED_PRECONDITION
  ELSE IF id \notin NodeIds THEN INIT_FAILED_ENTRY_NOT_GOOD
  ELSE LookupResult(tr[id])

\* WriteNode::InitUniqueByCreation: a tombstone is brought back, a new entry
\* is created, unless the store fails to.
InitUniqueByCreation(tr, type, tag, env) ==
  IF tag = "" THEN INIT_FAILED_EMPTY_TAG
  ELSE IF tr[SlotOf(type, tag)].status \notin {"absent", "deleted"}
       THEN INIT_FAILED_ENTRY_ALREADY_EXISTS
  ELSE env.creation

Looked(st, how, key, result) ==
  [st EXCEPT !.lookups = Append(@, <<how, key, result>>),
             !.events = Append(@, "read")]

\* The entry a successful creation leaves behind.
Created(st, id) ==
  [st EXCEPT !.tree[id] = LiveNode("", DefaultSpecifics),
             !.mutations = Append(@, <<"create", id>>),
             !.events = Append(@, "write")]

\* WriteNode::SetTitle
SetTitle(st, id, title) ==
  [st EXCEPT !.tree[id].title = title,
             !.mutations = Append(@, <<"set title", id, title>>),
             !.events = Append(@, "write")]

\* WriteNode::SetEntitySpecifics
SetEntitySpecifics(st, id, specifics) ==
  [st EXCEPT !.tree[id].specifics = specifics,
             !.mutations = Append(@, <<"set specifics", id, specifics>>),
             !.events = Append(@, "write")]

\* WriteNode::Remove
Remove(st, id) ==
  [st EXCEPT !.tree[id] = Tombstone,
             !.mutations = Append(@, <<"remove", id>>),
             !.events = Append(@, "write")]

----------------------------------------------------------------------------
\* Outbound stage: operations

\* DataTypeErrorHandler::OnSingleDatatypeUnrecoverableError
OnSingleDatatypeUnrecoverableError(st, message) ==
  [st EXCEPT !.handler = Append(@, message)]

\* The shape of every failing exit: the error is built, the handler is told
\* its message, the error is returned.
ReturnError(st, message, type) ==
  [OnSingleDatatypeUnrecoverableError(st, message) EXCEPT
     !.error = SyncError(message, type)]

\* NOTREACHED()
NOTREACHED(st) == [st EXCEPT !.notreached = TRUE]

\* The text LogLookupFailure appends to the prefix.
LookupFailureText(lookup_result) ==
  CASE lookup_result = INIT_FAILED_ENTRY_NOT_GOOD
         -> "could not find entry matching the lookup criteria."
    [] lookup_result = INIT_FAILED_ENTRY_IS_DEL -> "entry is already deleted."
    [] lookup_result = INIT_FAILED_DECRYPT_IF_NECESSARY -> "unable to decrypt"
    [] lookup_result = INIT_FAILED_PRECONDITION
         -> "a precondition was not met for calling init."
    [] OTHER -> "unknown error"

\* Mutant of LogLookupFailure: the error is built and returned, the error
\* handler is not told.
LogLookupFailure_Silent(st, lookup_result, error_prefix, type) ==
  [st EXCEPT !.error =
     SyncError(error_prefix \o <<LookupFailureText(lookup_result)>>, type)]

\* LogLookupFailure
LogLookupFailure(st, lookup_result, error_prefix, type) ==
  ReturnError(st, error_prefix \o <<LookupFailureText(lookup_result)>>, type)

\* Mutant of AttemptDelete: a found node is not removed.
AttemptDelete_NoRemove(st, change, type, type_str) ==
  LET data == change.sync_data
  IN  IF IsLocal(data)
      THEN IF data.tag = ""
           THEN NOTREACHED(
                  ReturnError(st, <<"Failed to delete ", type_str,
                                    " node. Local data, empty tag.">>, type))
           ELSE LET result == InitByClientTagLookup(st.tree, GetDataType(data),
                                                    data.tag)
                    s1 == Looked(st, "client tag",
                                 <<GetDataType(data), data.tag>>, result)
                IN  IF result # INIT_OK
                    THEN LogLookupFailure(
                           s1, result,
                           <<"Failed to delete ", type_str,
                             " node. Local data, ">>, type)
                    ELSE s1
      ELSE LET result == WriteNodeInitByIdLookup(st.tree, data.id)
               s1 == Looked(st, "id", data.id, result)
           IN  IF result # INIT_OK
               THEN LogLookupFailure(
                      s1, result,
                      <<"Failed to delete ", type_str,
                        " node. Non-local data, ">>, type)
               ELSE s1

\* Mutant of AttemptDelete: the tag is not tested before the lookup.
AttemptDelete_LooksUpFirst(st, change, type, type_str) ==
  LET data == change.sync_data
  IN  IF IsLocal(data)
      THEN LET result == InitByClientTagLookup(st.tree, GetDataType(data),
                                               data.tag)
               s1 == Looked(st, "client tag",
                            <<GetDataType(data), data.tag>>, result)
           IN  IF result # INIT_OK
               THEN LogLookupFailure(
                      s1, result,
                      <<"Failed to delete ", type_str,
                        " node. Local data, ">>, type)
               ELSE Remove(s1, SlotOf(GetDataType(data), data.tag))
      ELSE LET result == WriteNodeInitByIdLookup(st.tree, data.id)
               s1 == Looked(st, "id", data.id, result)
           IN  IF result # INIT_OK
               THEN LogLookupFailure(
                      s1, result,
                      <<"Failed to delete ", type_str,
                        " node. Non-local data, ">>, type)
               ELSE Remove(s1, data.id)

\* AttemptDelete
AttemptDelete(st, change, type, type_str) ==
  LET data == change.sync_data
  IN  IF IsLocal(data)
      THEN IF data.tag = ""
           THEN NOTREACHED(
                  ReturnError(st, <<"Failed to delete ", type_str,
                                    " node. Local data, empty tag.">>, type))
           ELSE LET result == InitByClientTagLookup(st.tree, GetDataType(data),
                                                    data.tag)
                    s1 == Looked(st, "client tag",
                                 <<GetDataType(data), data.tag>>, result)
                IN  IF result # INIT_OK
                    THEN LogLookupFailure(
                           s1, result,
                           <<"Failed to delete ", type_str,
                             " node. Local data, ">>, type)
                    ELSE Remove(s1, SlotOf(GetDataType(data), data.tag))
      ELSE LET result == WriteNodeInitByIdLookup(st.tree, data.id)
               s1 == Looked(st, "id", data.id, result)
           IN  IF result # INIT_OK
               THEN LogLookupFailure(
                      s1, result,
                      <<"Failed to delete ", type_str,
                        " node. Non-local data, ">>, type)
               ELSE Remove(s1, data.id)

\* The text of a failed creation.
CreationFailureText(result) ==
  CASE result = INIT_FAILED_EMPTY_TAG -> "empty tag"
    [] result = INIT_FAILED_ENTRY_ALREADY_EXISTS -> "entry already exists"
    [] result = INIT_FAILED_COULD_NOT_CREATE_ENTRY -> "failed to create entry"
    [] result = INIT_FAILED_SET_PREDECESSOR -> "failed to set predecessor"
    [] OTHER -> "unknown error"

\* Mutant of ProcessAdd: the result of the root's lookup is not tested.
ProcessAdd_IgnoresRoot(st, change, type, type_str, env) ==
  LET data == change.sync_data
      s1 == Looked(st, "root tag", ModelTypeToRootTag(GetDataType(data)),
                   env.root_lookup)
      result == InitUniqueByCreation(s1.tree, GetDataType(data), data.tag, env)
      s2 == [s1 EXCEPT !.creations =
               Append(@, <<GetDataType(data), data.tag, result>>),
                       !.events = Append(@, "read")]
      id == SlotOf(GetDataType(data), data.tag)
  IN  IF result # INIT_SUCCESS
      THEN ReturnError(s2, <<"Failed to create ", type_str, " node: ",
                             CreationFailureText(result)>>, type)
      ELSE SetEntitySpecifics(SetTitle(Created(s2, id), id, data.title),
                              id, data.specifics)

\* The Add branch of ProcessSyncChanges; .error.set tells the loop to return.
ProcessAdd(st, change, type, type_str, env) ==
  LET data == change.sync_data
      s1 == Looked(st, "root tag", ModelTypeToRootTag(GetDataType(data)),
                   env.root_lookup)
  IN  IF env.root_lookup # INIT_OK
      THEN NOTREACHED(
             ReturnError(s1, <<"Failed to look up root node for type ",
                               type_str>>, type))
      ELSE LET result == InitUniqueByCreation(s1.tree, GetDataType(data),
                                              data.tag, env)
               s2 == [s1 EXCEPT !.creations =
                        Append(@, <<GetDataType(data), data.tag, result>>),
                                !.events = Append(@, "read")]
               id == SlotOf(GetDataType(data), data.tag)
           IN  IF result # INIT_SUCCESS
               THEN ReturnError(s2, <<"Failed to create ", type_str, " node: ",
                                      CreationFailureText(result)>>, type)
               ELSE SetEntitySpecifics(
                      SetTitle(Created(s2, id), id, data.title),
                      id, data.specifics)

\* trans.GetCryptographer()
GetCryptographer(st) ==
  [st EXCEPT !.crypto_reads = @ + 1, !.events = Append(@, "cryptographer")]

\* Mutant of EncryptionDiagnostic: the third test looks at can_decrypt
\* instead of agreement.
EncryptionDiagnostic_WrongTest(st, id, type, type_str, env) ==
  LET s1 == GetCryptographer(st)
      specifics == st.tree[id].specifics
      can_decrypt == env.can_decrypt
      agreement == type \in env.encrypted_types
  IN  IF ~specifics.has_encrypted THEN [s1 EXCEPT !.check_failed = TRUE]
      ELSE IF ~agreement /\ ~can_decrypt
      THEN ReturnError(s1, <<"Failed to load encrypted entry, missing key and ",
                             "nigori mismatch for ", type_str, ".">>, type)
      ELSE IF agreement /\ can_decrypt
      THEN ReturnError(s1, <<"Failed to load encrypted entry, we have the key ",
                             "and the nigori matches (?!) for ", type_str,
                             ".">>, type)
      ELSE IF can_decrypt
      THEN ReturnError(s1, <<"Failed to load encrypted entry, missing key and ",
                             "the nigori matches for ", type_str, ".">>, type)
      ELSE ReturnError(s1, <<"Failed to load encrypted entry, we have the key",
                             "(?!) and nigori mismatch for ", type_str, ".">>,
                       type)

\* Mutant of EncryptionDiagnostic: the cryptographer is read under a
\* transaction of its own.
EncryptionDiagnostic_OwnTransaction(st, id, type, type_str, env) ==
  LET s1 == [GetCryptographer([st EXCEPT !.events = Append(@, "open read")])
               EXCEPT !.events = Append(@, "close")]
      specifics == st.tree[id].specifics
      can_decrypt == env.can_decrypt
      agreement == type \in env.encrypted_types
  IN  IF ~specifics.has_encrypted THEN [s1 EXCEPT !.check_failed = TRUE]
      ELSE IF ~agreement /\ ~can_decrypt
      THEN ReturnError(s1, <<"Failed to load encrypted entry, missing key and ",
                             "nigori mismatch for ", type_str, ".">>, type)
      ELSE IF agreement /\ can_decrypt
      THEN ReturnError(s1, <<"Failed to load encrypted entry, we have the key ",
                             "and the nigori matches (?!) for ", type_str,
                             ".">>, type)
      ELSE IF agreement
      THEN ReturnError(s1, <<"Failed to load encrypted entry, missing key and ",
                             "the nigori matches for ", type_str, ".">>, type)
      ELSE ReturnError(s1, <<"Failed to load encrypted entry, we have the key",
                             "(?!) and nigori mismatch for ", type_str, ".">>,
                       type)

\* The encryption diagnostic of the Update branch.
EncryptionDiagnostic(st, id, type, type_str, env) ==
  LET s1 == GetCryptographer(st)
      specifics == st.tree[id].specifics
      can_decrypt == env.can_decrypt
      agreement == type \in env.encrypted_types
  IN  IF ~specifics.has_encrypted THEN [s1 EXCEPT !.check_failed = TRUE]
      ELSE IF ~agreement /\ ~can_decrypt
      THEN ReturnError(s1, <<"Failed to load encrypted entry, missing key and ",
                             "nigori mismatch for ", type_str, ".">>, type)
      ELSE IF agreement /\ can_decrypt
      THEN ReturnError(s1, <<"Failed to load encrypted entry, we have the key ",
                             "and the nigori matches (?!) for ", type_str,
                             ".">>, type)
      ELSE IF agreement
      THEN ReturnError(s1, <<"Failed to load encrypted entry, missing key and ",
                             "the nigori matches for ", type_str, ".">>, type)
      ELSE ReturnError(s1, <<"Failed to load encrypted entry, we have the key",
                             "(?!) and nigori mismatch for ", type_str, ".">>,
                       type)

\* Mutant of ProcessUpdate: a found entry gets the title, not the specifics.
ProcessUpdate_TitleOnly(st, change, type, type_str, env) ==
  LET data == change.sync_data
      result == InitByClientTagLookup(st.tree, GetDataType(data), data.tag)
      s1 == Looked(st, "client tag", <<GetDataType(data), data.tag>>, result)
      id == SlotOf(GetDataType(data), data.tag)
  IN  IF result = INIT_OK
      THEN SetTitle(s1, id, data.title)
      ELSE IF result = INIT_FAILED_PRECONDITION
      THEN ReturnError(s1, <<"Failed to load entry w/empty tag for ", type_str,
                             ".">>, type)
      ELSE IF result = INIT_FAILED_ENTRY_NOT_GOOD
      THEN ReturnError(s1, <<"Failed to load bad entry for ", type_str, ".">>,
                       type)
      ELSE IF result = INIT_FAILED_ENTRY_IS_DEL
      THEN ReturnError(s1, <<"Failed to load deleted entry for ", type_str,
                             ".">>, type)
      ELSE EncryptionDiagnostic(s1, id, type, type_str, env)

\* Mutant of ProcessUpdate: the branch of the deleted entry is missing.
ProcessUpdate_NoDeletedBranch(st, change, type, type_str, env) ==
  LET data == change.sync_data
      result == InitByClientTagLookup(st.tree, GetDataType(data), data.tag)
      s1 == Looked(st, "client tag", <<GetDataType(data), data.tag>>, result)
      id == SlotOf(GetDataType(data), data.tag)
  IN  IF result = INIT_OK
      THEN SetEntitySpecifics(SetTitle(s1, id, data.title), id, data.specifics)
      ELSE IF result = INIT_FAILED_PRECONDITION
      THEN ReturnError(s1, <<"Failed to load entry w/empty tag for ", type_str,
                             ".">>, type)
      ELSE IF result = INIT_FAILED_ENTRY_NOT_GOOD
      THEN ReturnError(s1, <<"Failed to load bad entry for ", type_str, ".">>,
                       type)
      ELSE EncryptionDiagnostic(s1, id, type, type_str, env)

\* The Update branch of ProcessSyncChanges.
ProcessUpdate(st, change, type, type_str, env) ==
  LET data == change.sync_data
      result == InitByClientTagLookup(st.tree, GetDataType(data), data.tag)
      s1 == Looked(st, "client tag", <<GetDataType(data), data.tag>>, result)
      id == SlotOf(GetDataType(data), data.tag)
  IN  IF result = INIT_OK
      THEN SetEntitySpecifics(SetTitle(s1, id, data.title), id, data.specifics)
      ELSE IF result = INIT_FAILED_PRECONDITION
      THEN ReturnError(s1, <<"Failed to load entry w/empty tag for ", type_str,
                             ".">>, type)
      ELSE IF result = INIT_FAILED_ENTRY_NOT_GOOD
      THEN ReturnError(s1, <<"Failed to load bad entry for ", type_str, ".">>,
                       type)
      ELSE IF result = INIT_FAILED_ENTRY_IS_DEL
      THEN ReturnError(s1, <<"Failed to load deleted entry for ", type_str,
                             ".">>, type)
      ELSE EncryptionDiagnostic(s1, id, type, type_str, env)

\* One iteration of the loop of ProcessSyncChanges.
ProcessChange(st, change, env) ==
  LET type == GetDataType(change.sync_data)
      type_str == ModelTypeToString(type)
  IN  IF change.change_type = ACTION_DELETE
      THEN LET s1 == AttemptDelete(st, change, type, type_str)
           IN  IF s1.error.set THEN NOTREACHED(s1) ELSE s1
      ELSE IF change.change_type = ACTION_ADD
      THEN ProcessAdd(st, change, type, type_str, env)
      ELSE IF change.change_type = ACTION_UPDATE
      THEN ProcessUpdate(st, change, type, type_str, env)
      ELSE NOTREACHED(
             ReturnError(st, <<"Received unset csync::SyncChange in the ",
                               "change processor.">>, type))

\* The iteration's observations join the run's; the next iteration works on
\* the tree this one leaves.
EndOfIteration(run, s1) ==
  [tree |-> s1.tree, steps |-> Append(run.steps, s1)]

\* Mutant of ProcessLoop: the loop goes on after a failed change.
RECURSIVE ProcessLoop_NoEarlyReturn(_, _, _)
ProcessLoop_NoEarlyReturn(run, changes, env) ==
  IF changes = <<>> THEN run
  ELSE ProcessLoop_NoEarlyReturn(
         EndOfIteration(run, ProcessChange(NewStep(run.tree, Head(changes)),
                                           Head(changes), env)),
         Tail(changes), env)

\* The loop of ProcessSyncChanges over the changes still to handle: it
\* returns at the first change that ends with an error.
RECURSIVE ProcessLoop(_, _, _)
ProcessLoop(run, changes, env) ==
  IF changes = <<>> THEN run
  ELSE LET s1 == ProcessChange(NewStep(run.tree, Head(changes)),
                               Head(changes), env)
       IN  IF s1.error.set \/ s1.check_failed THEN EndOfIteration(run, s1)
           ELSE ProcessLoop(EndOfIteration(run, s1), Tail(changes), env)

\* The error ProcessSyncChanges returns: the one of the iteration it
\* returned from, csync::SyncError() after the loop.
ReturnedError(steps) ==
  IF steps = <<>> THEN NoError ELSE steps[Len(steps)].error

\* The process dies in the call: a NOTREACHED() kills a build with DCHECKs
\* on, a failed CHECK kills every build.
Dies(steps, env) ==
  \E i \in 1..Len(steps) :
    steps[i].check_failed \/ (steps[i].notreached /\ env.dcheck_is_on)

\* The events of the iterations, in order.
RECURSIVE EventsOf(_)
EventsOf(steps) ==
  IF steps = <<>> THEN <<>> ELSE Head(steps).events \o EventsOf(Tail(steps))

\* csync::WriteTransaction trans(from_here, share_handle()) and its
\* destructor, which runs at every return; a process that dies in the call
\* does not get to it.
WriteTransaction(events, returned) ==
  <<"open write">> \o events \o (IF returned THEN <<"close">> ELSE <<>>)

\* csync::ReadTransaction trans(FROM_HERE, share_handle()) and its destructor.
ReadTransaction(events) == <<"open read">> \o events \o <<"close">>

\* Mutant of ProcessSyncChanges: the list is walked from its end.
ProcessSyncChanges_Backwards(tr, list_of_changes, env) ==
  LET r == ProcessLoop([tree |-> tr, steps |-> <<>>],
                       [i \in 1..Len(list_of_changes) |->
                          list_of_changes[Len(list_of_changes) + 1 - i]], env)
  IN  [NoOut("ProcessSyncChanges") EXCEPT
         !.list = list_of_changes, !.before = tr, !.tree = r.tree,
         !.env = env, !.steps = r.steps,
         !.error = ReturnedError(r.steps),
         !.returned = ~Dies(r.steps, env),
         !.events = WriteTransaction(EventsOf(r.steps), ~Dies(r.steps, env))]

\* Mutant of ProcessSyncChanges: a return with an error leaves the
\* transaction open.
ProcessSyncChanges_HoldsOnError(tr, list_of_changes, env) ==
  LET r == ProcessLoop([tree |-> tr, steps |-> <<>>], list_of_changes, env)
  IN  [NoOut("ProcessSyncChanges") EXCEPT
         !.list = list_of_changes, !.before = tr, !.tree = r.tree,
         !.env = env, !.steps = r.steps,
         !.error = ReturnedError(r.steps),
         !.returned = ~Dies(r.steps, env),
         !.events = WriteTransaction(
                      EventsOf(r.steps),
                      ~Dies(r.steps, env) /\ ~ReturnedError(r.steps).set)]

\* GenericChangeProcessor::ProcessSyncChanges
ProcessSyncChanges(tr, list_of_changes, env) ==
  LET r == ProcessLoop([tree |-> tr, steps |-> <<>>], list_of_changes, env)
  IN  [NoOut("ProcessSyncChanges") EXCEPT
         !.list = list_of_changes, !.before = tr, !.tree = r.tree,
         !.env = env, !.steps = r.steps,
         !.error = ReturnedError(r.steps),
         !.returned = ~Dies(r.steps, env),
         !.events = WriteTransaction(EventsOf(r.steps), ~Dies(r.steps, env))]

----------------------------------------------------------------------------
\* Read operations on the tree store

\* Largest number of children the store links under a type root.
MaxChildren == 2

\* The children of a type root as the store links them: ids in sibling
\* order, no id twice.  The operations below never look at a child's type.
ChildChains ==
  {chain \in UNION {[1..n -> NodeIds] : n \in 0..MaxChildren} :
     \A i, j \in 1..Len(chain) : i # j => chain[i] # chain[j]}

\* What the store answers to a read operation: the result of the type
\* root's lookup and the root's children.
StoreAnswers ==
  [root_lookup : {INIT_OK, INIT_FAILED_ENTRY_NOT_GOOD}, children : ChildChains]

\* What the cryptographer answers to CryptoReadyIfNecessary.
CryptoAnswers == [encrypted_types : SUBSET ModelTypes, is_ready : BOOLEAN]

\* What the caller's list holds when it calls GetSyncDataForType.
SyncDataLists ==
  {<<>>, <<CreateRemoteData(5, EntitySpecifics("PREFERENCES", "old", FALSE))>>}

\* BaseNode::GetFirstChildId
GetFirstChildId(children) ==
  IF children = <<>> THEN kInvalidId ELSE children[1]

\* BaseNode::GetSuccessorId
GetSuccessorId(children, id) ==
  LET i == CHOOSE k \in 1..Len(children) : children[k] = id
  IN  IF i = Len(children) THEN kInvalidId ELSE children[i + 1]

\* BaseNode::HasChildren
HasChildren(children) == children # <<>>

\* ReadNode::InitByIdLookup on the tree
ReadNodeInitByIdLookup(tr, id) ==
  IF id = kInvalidId THEN INIT_FAILED_PRECONDITION
  ELSE IF id \notin NodeIds THEN INIT_FAILED_ENTRY_NOT_GOOD
  ELSE LookupResult(tr[id])

\* ReadNode::InitByTagLookup of a type root
RootLookedUp(st) == [st EXCEPT !.events = Append(@, "read")]

\* Mutant of ChildLoop: a child is put in front of the list.
RECURSIVE ChildLoop_PushFront(_, _, _, _, _)
ChildLoop_PushFront(st, tr, type, children, sync_child_id) ==
  IF sync_child_id = kInvalidId THEN st
  ELSE LET s1 == [st EXCEPT !.events = Append(@, "read")]
       IN  IF ReadNodeInitByIdLookup(tr, sync_child_id) # INIT_OK
           THEN [s1 EXCEPT !.error =
                   SyncError(<<"Failed to fetch child node for type ",
                               ModelTypeToString(type), ".">>, type)]
           ELSE ChildLoop_PushFront(
                  [s1 EXCEPT !.output =
                     <<CreateRemoteData(sync_child_id,
                                        tr[sync_child_id].specifics)>> \o @],
                  tr, type, children,
                  GetSuccessorId(children, sync_child_id))

\* Mutant of ChildLoop: the list is cleared when a child fails to load.
RECURSIVE ChildLoop_ClearsOnFailure(_, _, _, _, _)
ChildLoop_ClearsOnFailure(st, tr, type, children, sync_child_id) ==
  IF sync_child_id = kInvalidId THEN st
  ELSE LET s1 == [st EXCEPT !.events = Append(@, "read")]
       IN  IF ReadNodeInitByIdLookup(tr, sync_child_id) # INIT_OK
           THEN [s1 EXCEPT !.output = <<>>,
                           !.error =
                   SyncError(<<"Failed to fetch child node for type ",
                               ModelTypeToString(type), ".">>, type)]
           ELSE ChildLoop_ClearsOnFailure(
                  [s1 EXCEPT !.output =
                     Append(@, CreateRemoteData(sync_child_id,
                                                tr[sync_child_id].specifics))],
                  tr, type, children,
                  GetSuccessorId(children, sync_child_id))

\* The while loop of GetSyncDataForType, at child sync_child_id.
RECURSIVE ChildLoop(_, _, _, _, _)
ChildLoop(st, tr, type, children, sync_child_id) ==
  IF sync_child_id = kInvalidId THEN st
  ELSE LET s1 == [st EXCEPT !.events = Append(@, "read")]
       IN  IF ReadNodeInitByIdLookup(tr, sync_child_id) # INIT_OK
           THEN [s1 EXCEPT !.error =
                   SyncError(<<"Failed to fetch child node for type ",
                               ModelTypeToString(type), ".">>, type)]
           ELSE ChildLoop(
                  [s1 EXCEPT !.output =
                     Append(@, CreateRemoteData(sync_child_id,
                                                tr[sync_child_id].specifics))],
                  tr, type, children,
                  GetSuccessorId(children, sync_child_id))

\* GenericChangeProcessor::GetSyncDataForType
GetSyncDataForType(tr, type, current_sync_data, store) ==
  LET st == [error |-> NoError, output |-> current_sync_data,
             events |-> <<>>]
      s1 == RootLookedUp(st)
      r == IF store.root_lookup # INIT_OK
           THEN [s1 EXCEPT !.error =
                   SyncError(<<"Server did not create the top-level ",
                               ModelTypeToString(type),
                               " node. We might be running against an ",
                               "out-of-date server.">>, type)]
           ELSE ChildLoop(s1, tr, type, store.children,
                          GetFirstChildId(store.children))
  IN  [NoOut("GetSyncDataForType") EXCEPT
         !.type = type, !.input = current_sync_data, !.output = r.output,
         !.error = r.error, !.events = ReadTransaction(r.events)]

\* GenericChangeProcessor::SyncModelHasUserCreatedNodes
SyncModelHasUserCreatedNodes(type, store) ==
  LET s1 == RootLookedUp([events |-> <<>>])
  IN  IF store.root_lookup # INIT_OK
      THEN [NoOut("SyncModelHasUserCreatedNodes") EXCEPT
              !.type = type, !.has_nodes = FALSE, !.value = FALSE,
              !.events = ReadTransaction(s1.events)]
      ELSE [NoOut("SyncModelHasUserCreatedNodes") EXCEPT
              !.type = type, !.has_nodes = HasChildren(store.children),
              !.value = TRUE,
              !.events = ReadTransaction(Append(s1.events, "read"))]

\* Mutant of CryptoReadyIfNecessary: the type must be encrypted and the
\* cryptographer ready.
CryptoReadyIfNecessary_And(type, crypto) ==
  [NoOut("CryptoReadyIfNecessary") EXCEPT
     !.type = type,
     !.value = type \in crypto.encrypted_types /\ crypto.is_ready,
     !.events = ReadTransaction(
                  IF type \in crypto.encrypted_types
                  THEN <<"cryptographer", "cryptographer">>
                  ELSE <<"cryptographer">>)]

\* GenericChangeProcessor::CryptoReadyIfNecessary: is_ready() is read when
\* the type is encrypted.
CryptoReadyIfNecessary(type, crypto) ==
  [NoOut("CryptoReadyIfNecessary") EXCEPT
     !.type = type,
     !.value = type \notin crypto.encrypted_types \/ crypto.is_ready,
     !.events = ReadTransaction(
                  IF type \in crypto.encrypted_types
                  THEN <<"cryptographer", "cryptographer">>
                  ELSE <<"cryptographer">>)]

----------------------------------------------------------------------------
\* Outbound stage: actions

\* The process is still running.
Alive == out_last.returned

\* The answers worth telling apart for a call: those the call with the
\* default answers gets to read.
ReadRoot(r) ==
  \E i \in 1..Len(r.steps) : \E j \in 1..Len(r.steps[i].lookups) :
    r.steps[i].lookups[j][1] = "root tag"

ReadCreation(r, result) ==
  \E i \in 1..Len(r.steps) : \E j \in 1..Len(r.steps[i].creations) :
    r.steps[i].creations[j][3] = result

ReadCryptographer(r) ==
  \E i \in 1..Len(r.steps) : r.steps[i].crypto_reads > 0

EnvsFor(d) ==
  [root_lookup : IF ReadRoot(d) THEN {INIT_OK, INIT_FAILED_ENTRY_NOT_GOOD}
                 ELSE {INIT_OK},
   creation : IF ReadCreation(d, INIT_SUCCESS)
              THEN {INIT_SUCCESS, INIT_FAILED_COULD_NOT_CREATE_ENTRY,
                    INIT_FAILED_SET_PREDECESSOR, INIT_FAILED_UNLISTED}
              ELSE {INIT_SUCCESS},
   encrypted_types : IF ReadCryptographer(d) THEN SUBSET ModelTypes ELSE {{}},
   can_decrypt : IF ReadCryptographer(d) THEN BOOLEAN ELSE {FALSE},
   dcheck_is_on : BOOLEAN]

\* The call read every answer that differs from the default one.
ReadItsAnswers(r, env) ==
  /\ env.creation # INIT_SUCCESS => ReadCreation(r, env.creation)
  /\ (env.encrypted_types # {} \/ env.can_decrypt) => ReadCryptographer(r)
  /\ env.dcheck_is_on => \E i \in 1..Len(r.steps) : r.steps[i].notreached

\* GenericChangeProcessor::GenericChangeProcessor, with the store it is given.
ConstructOut ==
  /\ tree \in TreeStates
  /\ pending = <<>>
  /\ out_last = NoOut("constructed")

\* The local service adds a change to the list it will hand over.
LocalServiceQueuesChange ==
  \E change \in OutChanges :
    /\ Alive
    /\ Len(pending) < MaxChanges
    /\ pending' = Append(pending, change)
    /\ out_last' = NoOut("change queued")
    /\ UNCHANGED <<tree, scVars, inVars>>

\* The local service calls ProcessSyncChanges with its list.
CallProcessSyncChanges ==
  /\ Alive
  /\ \E d \in {ProcessSyncChanges(tree, pending, DefaultEnv)} :
       \E env \in EnvsFor(d) :
         \E r \in {IF env = DefaultEnv THEN d
                   ELSE ProcessSyncChanges(tree, pending, env)} :
           /\ ReadItsAnswers(r, env)
           /\ tree' = r.tree
           /\ pending' = <<>>
           /\ out_last' = r
           /\ UNCHANGED <<scVars, inVars>>

\* Model association: the data type reads the store before the local service
\* hands it changes.
Associating ==
  /\ Alive
  /\ pending = <<>>
  /\ out_last.op # "ProcessSyncChanges"

\* The answers recorded are those the call read.
CallGetSyncDataForType ==
  \E type \in ModelTypes, current_sync_data \in SyncDataLists,
     store \in StoreAnswers :
    /\ Associating
    /\ store.root_lookup # INIT_OK => store.children = <<>>
    /\ out_last' = [GetSyncDataForType(tree, type, current_sync_data, store)
                      EXCEPT !.store = store]
    /\ UNCHANGED <<tree, pending, scVars, inVars>>

CallSyncModelHasUserCreatedNodes ==
  \E type \in ModelTypes, store \in StoreAnswers :
    /\ Associating
    /\ Len(store.children) <= 1
    /\ store.root_lookup # INIT_OK => store.children = <<>>
    /\ out_last' = [SyncModelHasUserCreatedNodes(type, store)
                      EXCEPT !.store = store]
    /\ UNCHANGED <<tree, pending, scVars, inVars>>

CallCryptoReadyIfNecessary ==
  \E type \in ModelTypes, crypto \in CryptoAnswers :
    /\ Associating
    /\ out_last' = [CryptoReadyIfNecessary(type, crypto)
                      EXCEPT !.crypto = crypto]
    /\ UNCHANGED <<tree, pending, scVars, inVars>>

----------------------------------------------------------------------------
\* Specifications

\* The pipeline, constructed and left alone.
InIdle ==
  /\ running = FALSE
  /\ local_service_ = TRUE
  /\ syncer_changes_ = <<>>
  /\ nodes = [id \in NodeIds |->
               [lookup |-> INIT_FAILED_ENTRY_NOT_GOOD, specifics |-> "none"]]
  /\ phase = "idle"
  /\ in_last = NoCalls("constructed")

\* The startup controller, constructed and left alone.
SCIdle ==
  /\ received_start_request_ = FALSE
  /\ setup_in_progress_ = FALSE
  /\ auto_start_enabled_ = FALSE
  /\ start_up_time_ = NullTime
  /\ start_backend_time_ = NullTime
  /\ token_service_ = FALSE
  /\ deferred_switch = FALSE
  /\ sync_prefs_ = [IsManaged |-> FALSE, IsStartSuppressed |-> FALSE,
                    HasSyncSetupCompleted |-> FALSE]
  /\ signin_ = [has_username |-> FALSE]
  /\ refresh_token_ = FALSE
  /\ now = FirstInstant
  /\ tasks = {}
  /\ backend_runs = 0
  /\ last = NoEffects("constructed")

\* The outbound stage, constructed on an empty store and left alone.
OutIdle ==
  /\ tree = [id \in NodeIds |-> AbsentNode]
  /\ pending = <<>>
  /\ out_last = NoOut("constructed")

InitSC == InIdle /\ OutIdle /\ ConstructSC

InitIn == SCIdle /\ OutIdle /\ ConstructIn

InitOut == SCIdle /\ InIdle /\ ConstructOut

NextIn ==
  \/ CallApply
  \/ ApplyAssertionFails
  \/ CallCommit
  \/ Start
  \/ Stop
  \/ LocalServiceDestroyed
  \/ StoreChanges

SpecSC == InitSC /\ [][NextSC]_vars

SpecIn == InitIn /\ [][NextIn]_vars

NextOut ==
  \/ LocalServiceQueuesChange
  \/ CallProcessSyncChanges
  \/ CallGetSyncDataForType
  \/ CallSyncModelHasUserCreatedNodes
  \/ CallCryptoReadyIfNecessary

SpecOut == InitOut /\ [][NextOut]_vars

Spec == SpecSC

\* The message loop runs due tasks and time passes.
FairSC == SpecSC /\ WF_vars(Tick) /\ WF_vars(RunFallbackTask)

----------------------------------------------------------------------------
\* Properties of the inbound stage (checked under SpecIn)

IsApply(l) == l.op = "ApplyChangesFromSyncModel" /\ ~l.dcheck_failed
IsCommit(l) == l.op = "CommitChangesFromSyncModel"

\* Every Add/Update record of the list finds its node in the store.
AllLookupsSucceed(records, store) ==
  \A i \in 1..Len(records) :
    records[i].action # ACTION_DELETE => store[records[i].id].lookup = INIT_OK

\* The staged entry the i-th record stands for, read off the record and the
\* store.
DerivedEntry(record, store) ==
  [change_type |-> CASE record.action = ACTION_DELETE -> ACTION_DELETE
                     [] record.action = ACTION_ADD -> ACTION_ADD
                     [] OTHER -> ACTION_UPDATE,
   sync_data |-> [local |-> FALSE, id |-> record.id,
                  specifics |-> IF record.action = ACTION_DELETE
                                THEN record.specifics
                                ELSE store[record.id].specifics]]

C2_DrainedByCommit ==
  /\ (IsCommit(in_last) /\ in_last.follows \in {"applied", "apply failed"})
       => syncer_changes_ = <<>>
  /\ ~in_last.dcheck_failed

\* Some Add/Update record of the list does not find its node.
SomeLookupFails(records, store) == ~AllLookupsSucceed(records, store)

\* C3 (as claimed): an apply that hits a failed lookup reports one error and
\* leaves the staging buffer empty, and the following commit delivers
\* nothing.
C3_PrefixDiscarded ==
  /\ (IsApply(in_last) /\ SomeLookupFails(in_last.records, nodes))
       => (in_last.errors = 1 /\ syncer_changes_ = <<>>)
  /\ (IsCommit(in_last) /\ in_last.follows = "apply failed")
       => in_last.delivered = <<>>

\* The commit changed none of the pipeline's fields.
CommitLeftPipeline(l) ==
  Pipeline(running, local_service_, syncer_changes_) = l.before

\* C21: a commit that finds the pipeline not running, or the staging buffer
\* empty, calls neither process_sync_changes nor the error handler and
\* leaves the staging buffer and the other fields as they were; so does the
\* commit that follows apply([]).
C21_CommitNoOp ==
  (IsCommit(in_last)
     /\ (~in_last.before.running \/ in_last.before.syncer_changes_ = <<>>))
    => /\ in_last.delivered = <<>>
       /\ in_last.errors = 0
       /\ in_last.reported = <<>>
       /\ ~in_last.error.set
       /\ CommitLeftPipeline(in_last)

\* C21 witness: a commit found entries staged, the local service alive and
\* the pipeline stopped, and delivered nothing.
C21_Witness ==
  /\ IsCommit(in_last)
  /\ ~in_last.before.running
  /\ in_last.before.local_service_
  /\ in_last.before.syncer_changes_ # <<>>
  /\ syncer_changes_ = in_last.before.syncer_changes_
  /\ in_last.delivered = <<>>

\* C21 witness of the empty batch: commit after apply([]).
C21_WitnessEmptyBatch ==
  /\ IsCommit(in_last)
  /\ in_last.follows = "applied"
  /\ in_last.before.running
  /\ in_last.before.syncer_changes_ = <<>>
  /\ in_last.delivered = <<>>

\* The commit found the pipeline running, entries staged and the local
\* service torn down.
CommitFindsServiceGone(l) ==
  /\ IsCommit(l)
  /\ l.before.running
  /\ l.before.syncer_changes_ # <<>>
  /\ ~l.before.local_service_

\* C22: such a commit builds one error, "Local service destroyed.", with the
\* datatype of the first staged entry, gives its message to the error
\* handler once, does not call process_sync_changes and leaves the staging
\* buffer and the other fields as they were.
C22_CommitServiceTornDown ==
  CommitFindsServiceGone(in_last)
    => /\ in_last.error
            = SyncError(<<"Local service destroyed.">>,
                        StagedDataType(
                          in_last.before.syncer_changes_[1].sync_data))
       /\ in_last.reported = <<in_last.error.message>>
       /\ in_last.errors = 1
       /\ in_last.delivered = <<>>
       /\ CommitLeftPipeline(in_last)

\* C22 witness: the two staged entries are of different datatypes and the
\* error carries the first one's.
C22_Witness ==
  /\ CommitFindsServiceGone(in_last)
  /\ Len(syncer_changes_) = 2
  /\ StagedDataType(syncer_changes_[1].sync_data)
       # StagedDataType(syncer_changes_[2].sync_data)
  /\ in_last.error.set
  /\ in_last.error.type = StagedDataType(syncer_changes_[1].sync_data)
  /\ in_last.errors = 1

\* C23: the commit that follows an apply, with entries staged, the pipeline
\* running and the local service alive, calls process_sync_changes once, with
\* the staged list; between two applies process_sync_changes is called at
\* most once, so a further commit calls it zero times.
C23_DeliveredExactlyOnce ==
  /\ (IsCommit(in_last)
        /\ in_last.follows \in {"applied", "apply failed"}
        /\ in_last.before.running
        /\ in_last.before.local_service_
        /\ in_last.before.syncer_changes_ # <<>>)
       => /\ in_last.delivered = <<in_last.before.syncer_changes_>>
          /\ in_last.deliveries = 1
  /\ in_last.deliveries <= 1

\* C23 witness: a commit that follows a delivering commit, with the
\* pipeline running and the local service alive, called nothing.
C23_Witness ==
  /\ IsCommit(in_last)
  /\ in_last.follows = "committed"
  /\ in_last.deliveries = 1
  /\ in_last.delivered = <<>>
  /\ in_last.before.running
  /\ in_last.before.local_service_

\* C24: a commit that calls process_sync_changes leaves the staging buffer
\* empty whatever the call returns; a set error it returns is given to the
\* error handler once, by its message; an unset one is not reported.
C24_ServiceErrorForwarded ==
  (IsCommit(in_last) /\ in_last.delivered # <<>>)
    => /\ syncer_changes_ = <<>>
       /\ in_last.error = in_last.answer
       /\ IF in_last.answer.set
          THEN in_last.reported = <<in_last.answer.message>>
               /\ in_last.errors = 1
          ELSE in_last.reported = <<>> /\ in_last.errors = 0

\* C24 witness: the local service returned a set error for a staged batch.
C24_Witness ==
  /\ IsCommit(in_last)
  /\ in_last.delivered # <<>>
  /\ in_last.answer.set
  /\ in_last.before.syncer_changes_ # <<>>
  /\ syncer_changes_ = <<>>
  /\ in_last.errors = 1

\* C25: an apply stages, for every Add/Update entry, the specifics its node
\* has at that moment; the store changing afterwards, like every step that
\* is neither an apply nor a commit, leaves the staged entries as they are;
\* and the commit delivers the staged entries as they are, whatever the nodes
\* hold by then.
C25_SnapshotAtApply ==
  [][ /\ IsApply(in_last')
           => \A j \in 1..Len(syncer_changes_') :
                syncer_changes_'[j].change_type # ACTION_DELETE
                  => syncer_changes_'[j].sync_data.specifics
                       = nodes[syncer_changes_'[j].sync_data.id].specifics
      /\ (~IsApply(in_last') /\ ~IsCommit(in_last'))
           => syncer_changes_' = syncer_changes_
      /\ IsCommit(in_last')
           => /\ in_last'.delivered \in {<<>>, <<syncer_changes_>>}
              /\ syncer_changes_' \in {<<>>, syncer_changes_}
    ]_vars

\* C25 witness: the commit that followed the apply delivered an entry for
\* node 7 with the specifics the apply read, and the node holds others by
\* now.
C25_Witness ==
  /\ IsCommit(in_last)
  /\ in_last.follows = "applied"
  /\ Len(in_last.delivered) = 1
  /\ \E j \in 1..Len(in_last.delivered[1]) :
       LET c == in_last.delivered[1][j]
       IN  /\ c.change_type # ACTION_DELETE
           /\ c.sync_data.id = 7
           /\ c.sync_data.specifics = "s7"
  /\ nodes[7].lookup = INIT_OK
  /\ nodes[7].specifics = "s7_now"

\* The records an apply got to handle: all of them, or those up to the one
\* whose lookup failed.
Handled(l, staged) ==
  SubSeq(l.records, 1,
         IF l.lookup_failed THEN Len(staged) + 1 ELSE Len(l.records))

IsNotDelete(record) == record.action # ACTION_DELETE

\* C26: after an apply the j-th staged entry stands for the j-th record: a
\* Delete record gives (Delete, Remote{id, the record's specifics}), an
\* ACTION_ADD record (Add, Remote{id, the node's specifics}), any other
\* record (Update, Remote{id, the node's specifics}); the nodes looked up are
\* those of the handled records that are not deletes, so a Delete is staged
\* without a lookup, whatever the state of its node.
C26_StagingMap ==
  IsApply(in_last) =>
    LET handled == Handled(in_last, syncer_changes_)
    IN  /\ Len(syncer_changes_) <= Len(in_last.records)
        /\ in_last.lookup_failed => Len(syncer_changes_) < Len(in_last.records)
        /\ \A j \in 1..Len(syncer_changes_) :
             LET record == in_last.records[j]
                 staged == syncer_changes_[j]
             IN  /\ staged.sync_data.local = FALSE
                 /\ staged.sync_data.id = record.id
                 /\ staged.change_type
                      = (CASE record.action = ACTION_DELETE -> ACTION_DELETE
                           [] record.action = ACTION_ADD -> ACTION_ADD
                           [] OTHER -> ACTION_UPDATE)
                 /\ staged.sync_data.specifics
                      = (IF record.action = ACTION_DELETE
                         THEN record.specifics
                         ELSE nodes[record.id].specifics)
                 /\ record.action # ACTION_DELETE
                      => staged.sync_data.specifics # record.specifics
        /\ in_last.lookups
             = [j \in 1..Len(SelectSeq(handled, IsNotDelete)) |->
                  SelectSeq(handled, IsNotDelete)[j].id]

\* C26 witness: an Add record of node 7 and a Delete record of node 9, whose
\* lookup would fail, were staged as (Add, Remote{7, s7_now}) and
\* (Delete, Remote{9, the record's specifics}) after one lookup.
C26_Witness ==
  /\ IsApply(in_last)
  /\ Len(in_last.records) = 2
  /\ in_last.records[1].action = ACTION_ADD
  /\ in_last.records[2].action = ACTION_DELETE
  /\ nodes[9].lookup # INIT_OK
  /\ syncer_changes_
       = <<SyncChange(ACTION_ADD, CreateRemoteData(7, "s7_now")),
           SyncChange(ACTION_DELETE,
                      CreateRemoteData(9, in_last.records[2].specifics))>>
  /\ in_last.lookups = <<7>>
  /\ in_last.errors = 0

----------------------------------------------------------------------------
\* Properties of the startup controller (checked under SpecSC / FairSC)

\* The five pre-checks of TryStart, read off the collaborators.
PreChecksPass ==
  /\ ~sync_prefs_.IsManaged
  /\ ~sync_prefs_.IsStartSuppressed
  /\ signin_.has_username
  /\ token_service_
  /\ refresh_token_

IsTryStartCall(l) == l.op = "TryStart"
IsFallbackRun(l) == l.op = "OnFallbackStartupTimerExpired"
IsFlare(l) == l.op = "OnDataTypeRequestsSyncStartup"

ctlFields == <<received_start_request_, setup_in_progress_, start_up_time_,
               start_backend_time_, backend_runs>>

\* C4: a TryStart call with a failing pre-check returns false and changes
\* nothing: no field, no timer, no start_backend call, no histogram sample.
C4_PreChecksShortCircuit ==
  [][ (IsTryStartCall(last') /\ ~PreChecksPass)
        => /\ last'.try_start = "false"
           /\ UNCHANGED <<ctlFields, tasks>>
           /\ ~last'.posted
           /\ ~last'.ran_backend
           /\ last'.start_up = "not called"
           /\ last'.histograms = {}
    ]_vars

\* C4 witness: TryStart was called on a managed profile with everything else
\* in order, and start_up_time_ is still unset.
C4_Witness ==
  /\ IsTryStartCall(last)
  /\ sync_prefs_.IsManaged /\ ~sync_prefs_.IsStartSuppressed
  /\ signin_.has_username /\ token_service_ /\ refresh_token_
  /\ sync_prefs_.HasSyncSetupCompleted
  /\ last.try_start = "false"
  /\ start_up_time_ = NullTime

\* C5: the decision table of TryStart once the pre-checks pass.
C5_DecisionTable ==
  [][ (IsTryStartCall(last') /\ PreChecksPass)
        => /\ last'.histograms = {<<"Sync.RefreshTokenAvailable", 1>>}
           /\ (sync_prefs_.HasSyncSetupCompleted /\ ~received_start_request_)
                => last'.start_up = STARTUP_BACKEND_DEFERRED
           /\ (sync_prefs_.HasSyncSetupCompleted /\ received_start_request_)
                => last'.start_up = STARTUP_IMMEDIATE
           /\ (~sync_prefs_.HasSyncSetupCompleted
                 /\ (setup_in_progress_ \/ auto_start_enabled_))
                => last'.start_up = STARTUP_IMMEDIATE
           /\ (~sync_prefs_.HasSyncSetupCompleted
                 /\ ~setup_in_progress_ /\ ~auto_start_enabled_)
                => /\ last'.start_up = "not called"
                   /\ last'.try_start = "false"
                   /\ UNCHANGED <<ctlFields, tasks>>
                   /\ ~last'.posted
                   /\ ~last'.ran_backend
    ]_vars

\* C5 witness: setup not completed, no auto start, the user is setting up:
\* TryStart called StartUp(Immediate).
C5_Witness ==
  /\ IsTryStartCall(last)
  /\ PreChecksPass
  /\ ~sync_prefs_.HasSyncSetupCompleted
  /\ setup_in_progress_ /\ ~auto_start_enabled_
  /\ last.start_up = STARTUP_IMMEDIATE

\* C6: the first TryStart of a lifetime that passes the pre-checks, with
\* setup complete and no start request: with the switch it defers (returns
\* false, sets start_up_time_, posts the fallback task for now + timeout,
\* does not start the backend); without it, it starts the backend at once.
C6_FirstStartDeferredIffSwitch ==
  [][ (IsTryStartCall(last') /\ PreChecksPass
         /\ sync_prefs_.HasSyncSetupCompleted /\ ~received_start_request_
         /\ start_up_time_ = NullTime)
        => /\ start_up_time_' = now
           /\ deferred_switch
                => /\ last'.try_start = "false"
                   /\ last'.posted
                   /\ tasks' = tasks \cup
                        {[deadline |-> now + kDeferredInitFallbackSeconds,
                          valid |-> TRUE]}
                   /\ ~last'.ran_backend
                   /\ backend_runs' = backend_runs
                   /\ start_backend_time_' = NullTime
           /\ ~deferred_switch
                => /\ last'.try_start = "true"
                   /\ ~last'.posted
                   /\ tasks' = tasks
                   /\ last'.ran_backend
                   /\ backend_runs' = backend_runs + 1
                   /\ start_backend_time_' = now
    ]_vars

\* C6 witness: TryStart has just deferred and posted the fallback task.
C6_Witness ==
  /\ IsTryStartCall(last)
  /\ deferred_switch
  /\ last.posted
  /\ last.try_start = "false"
  /\ start_up_time_ = now
  /\ start_backend_time_ = NullTime

\* C7: between two Resets start_backend runs at most once, and a timestamp
\* that is set keeps its value until Reset.
C7_StartOncePerLifetime ==
  [][ /\ backend_runs' <= 1
      /\ last'.op # "Reset"
           => /\ start_up_time_ # NullTime => start_up_time_' = start_up_time_
              /\ start_backend_time_ # NullTime
                   => start_backend_time_' = start_backend_time_
              /\ backend_runs' >= backend_runs
    ]_vars

\* C7 witness: the backend was started earlier in this lifetime, time has
\* passed, and TryStart was called again and returned true.
C7_Witness ==
  /\ IsTryStartCall(last)
  /\ last.try_start = "true"
  /\ backend_runs = 1
  /\ start_backend_time_ # NullTime
  /\ start_backend_time_ < now

ValidTasks(set) == {t \in set : t.valid}

\* The fallback handler went past its start_backend_time_ test: it recorded
\* its two samples, set the request flag and called TryStart.
FallbackTookEffect(l, request) ==
  /\ l.try_start # "not called"
  /\ request
  /\ <<"Sync.Startup.DeferredInitTrigger", TRIGGER_FALLBACK_TIMER>>
       \in l.histograms
  /\ \E d \in 0..MaxTime : <<"Sync.Startup.TimeDeferred", d>> \in l.histograms

\* TryStart, called now, would get to StartUp(Immediate) given a start
\* request.
StartAllowed ==
  /\ PreChecksPass
  /\ \/ sync_prefs_.HasSyncSetupCompleted
     \/ setup_in_progress_
     \/ auto_start_enabled_

C9_FallbackFiresIffDeferredAndNotStarted ==
  [][ /\ IsFallbackRun(last')
           => /\ \E t \in ValidTasks(tasks) :
                   t.deadline <= now /\ tasks' = tasks \ {t}
              /\ deferred_switch
              /\ start_up_time_ # NullTime
              /\ FallbackTookEffect(last', received_start_request_')
                   <=> start_backend_time_ = NullTime
      /\ ~IsFallbackRun(last')
           => <<"Sync.Startup.DeferredInitTrigger", TRIGGER_FALLBACK_TIMER>>
                \notin last'.histograms
    ]_vars

\* C9 witness: the fallback handler took effect.
C9_Witness ==
  /\ IsFallbackRun(last)
  /\ FallbackTookEffect(last, received_start_request_)

\* C10: a flare in the deferred window sets the request flag, records its
\* three samples, makes TryStart take the Immediate branch and starts the
\* backend; a fallback task that runs once the backend has started changes
\* nothing.
C10_FlareStartsBackend ==
  [][ /\ (IsFlare(last') /\ deferred_switch /\ start_up_time_ # NullTime
            /\ start_backend_time_ = NullTime /\ PreChecksPass
            /\ sync_prefs_.HasSyncSetupCompleted)
           => /\ received_start_request_'
              /\ last'.start_up = STARTUP_IMMEDIATE
              /\ last'.try_start = "true"
              /\ last'.ran_backend
              /\ backend_runs' = 1
              /\ start_backend_time_' = now
              /\ start_up_time_' = start_up_time_
              /\ ~last'.posted /\ tasks' = tasks
              /\ <<"Sync.Startup.TimeDeferred", now - start_up_time_>>
                   \in last'.histograms
              /\ <<"Sync.Startup.DeferredInitTrigger",
                   TRIGGER_DATA_TYPE_REQUEST>> \in last'.histograms
              /\ \E type \in ModelTypes :
                   <<"Sync.Startup.TypeTriggeringInit", type>>
                     \in last'.histograms
      /\ (IsFallbackRun(last') /\ start_backend_time_ # NullTime)
           => /\ UNCHANGED ctlFields
              /\ last'.histograms = {}
              /\ last'.try_start = "not called"
              /\ last'.start_up = "not called"
              /\ ~last'.ran_backend
              /\ ~last'.posted
    ]_vars

\* C10 witness: the fallback task ran as a no-op in a lifetime whose backend
\* was started before the fallback deadline.
C10_Witness ==
  /\ IsFallbackRun(last)
  /\ last.try_start = "not called"
  /\ received_start_request_
  /\ start_backend_time_ # NullTime
  /\ start_backend_time_ < start_up_time_ + kDeferredInitFallbackSeconds

\* Nothing but the fields: no sample, no timer, no TryStart, no start_backend.
NoSideEffects(l) ==
  /\ l.histograms = {}
  /\ l.try_start = "not called"
  /\ l.start_up = "not called"
  /\ ~l.ran_backend
  /\ ~l.posted

\* C11: Reset leaves the request and setup flags false and both timestamps
\* unset, and no task posted before it has a live receiver afterwards; a
\* task that lost its receiver never gets one back and leaves the message
\* loop only by being dropped, which changes no field, records no sample and
\* calls neither TryStart nor start_backend; and every run of the fallback
\* handler is the run of a task posted in the current lifetime (its deadline
\* is this lifetime's start_up_time_ plus the timeout).
C11_ResetCancelsFallback ==
  [][ /\ last'.op = "Reset"
           => /\ ~received_start_request_'
              /\ ~setup_in_progress_'
              /\ start_up_time_' = NullTime
              /\ start_backend_time_' = NullTime
              /\ ValidTasks(tasks') = {}
              /\ {t.deadline : t \in tasks'} = {t.deadline : t \in tasks}
              /\ NoSideEffects(last')
      /\ \A t \in tasks \ ValidTasks(tasks) :
           \/ t \in tasks'
           \/ /\ last'.op = "cancelled task dropped"
              /\ UNCHANGED ctlFields
              /\ tasks' = tasks \ {t}
              /\ NoSideEffects(last')
      /\ IsFallbackRun(last')
           => /\ start_up_time_ # NullTime
              /\ \E t \in ValidTasks(tasks) :
                   /\ tasks' = tasks \ {t}
                   /\ t.deadline = start_up_time_ + kDeferredInitFallbackSeconds
    ]_vars

\* C11 witness: a task cancelled by Reset came due and was dropped in a later
\* lifetime that is itself deferred, with the backend not started: had the
\* task kept its receiver, its run would have taken effect.
C11_Witness ==
  /\ last.op = "cancelled task dropped"
  /\ deferred_switch
  /\ start_up_time_ # NullTime
  /\ start_backend_time_ = NullTime
  /\ ~received_start_request_
  /\ PreChecksPass

\* C12: with the backend started, OnDataTypeRequestsSyncStartup changes no
\* field (received_start_request_ included), posts no task, records no
\* sample and calls neither TryStart nor start_backend.
C12_FlareAfterStartIsNoOp ==
  [][ (IsFlare(last') /\ start_backend_time_ # NullTime)
        => /\ UNCHANGED <<ctlFields, tasks>>
           /\ NoSideEffects(last')
    ]_vars

\* C12 witness: a flare arrived with deferred startup enabled, the backend
\* started and no start request received so far.
C12_Witness ==
  /\ IsFlare(last)
  /\ deferred_switch
  /\ start_backend_time_ # NullTime
  /\ start_up_time_ # NullTime
  /\ ~received_start_request_
  /\ PreChecksPass

----------------------------------------------------------------------------
\* Properties of the outbound stage (checked under SpecOut)

IsProcess(l) == l.op = "ProcessSyncChanges"

\* The change cannot be carried out on the tree tr, by the store's answers:
\* a Delete whose node does not load (or whose local tag is empty), an Add
\* without type root or whose creation does not succeed, an Update whose
\* node does not load, a change that is none of the three.
ChangeFails(tr, change, env) ==
  LET data == change.sync_data
  IN  CASE change.change_type = ACTION_DELETE ->
             IF data.local
             THEN InitByClientTagLookup(tr, data.specifics.type, data.tag)
                    # INIT_OK
             ELSE WriteNodeInitByIdLookup(tr, data.id) # INIT_OK
        [] change.change_type = ACTION_ADD ->
             \/ env.root_lookup # INIT_OK
             \/ InitUniqueByCreation(tr, data.specifics.type, data.tag, env)
                  # INIT_SUCCESS
        [] change.change_type = ACTION_UPDATE ->
             InitByClientTagLookup(tr, data.specifics.type, data.tag) # INIT_OK
        [] OTHER -> TRUE

\* The iteration ended the call: with an error, or with the process dead.
EndsCall(step) == step.error.set \/ step.check_failed

Reporting(l) == {i \in 1..Len(l.steps) : l.steps[i].handler # <<>>}

Effect(tr, change) ==
  LET data == change.sync_data
      id == IF data.local THEN SlotOf(data.specifics.type, data.tag)
            ELSE data.id
  IN  IF change.change_type = ACTION_DELETE
      THEN [tr EXCEPT ![id] = Tombstone]
      ELSE [tr EXCEPT ![id] = LiveNode(data.title, data.specifics)]

\* The mutations that carry out a change, in order.
MutationsOf(change) ==
  LET data == change.sync_data
      id == IF data.local THEN SlotOf(data.specifics.type, data.tag)
            ELSE data.id
  IN  CASE change.change_type = ACTION_DELETE -> <<<<"remove", id>>>>
        [] change.change_type = ACTION_ADD ->
             <<<<"create", id>>, <<"set title", id, data.title>>,
               <<"set specifics", id, data.specifics>>>>
        [] OTHER ->
             <<<<"set title", id, data.title>>,
               <<"set specifics", id, data.specifics>>>>

IsLocalChange(change, action, tag) ==
  /\ change.change_type = action
  /\ change.sync_data.local
  /\ change.sync_data.tag = tag

\* C15: a call of ProcessSyncChanges that returns no error has handled the
\* whole list in its order: the i-th iteration handles the i-th change, on
\* the tree the iteration before left (the tree at entry for the first),
\* applies that change's mutations, in order, and nothing else, and the last
\* iteration's tree is the store's.  In particular [Add k, Update k,
\* Delete k] on a tree without k, with a type root and a store that can
\* create, gives no error and leaves k removed.
C15_OutboundOrder ==
  IsProcess(out_last) =>
    LET l == out_last
        n == Len(l.steps)
    IN  /\ (l.returned /\ ~l.error.set)
             => /\ n = Len(l.list)
                /\ \A i \in 1..n :
                     /\ l.steps[i].change = l.list[i]
                     /\ l.steps[i].before =
                          (IF i = 1 THEN l.before ELSE l.steps[i - 1].tree)
                     /\ l.steps[i].mutations = MutationsOf(l.list[i])
                     /\ l.steps[i].tree = Effect(l.steps[i].before, l.list[i])
                /\ tree = (IF n = 0 THEN l.before ELSE l.steps[n].tree)
        /\ (/\ Len(l.list) = 3
            /\ IsLocalChange(l.list[1], ACTION_ADD, "k")
            /\ IsLocalChange(l.list[2], ACTION_UPDATE, "k")
            /\ IsLocalChange(l.list[3], ACTION_DELETE, "k")
            /\ l.before[7].status \in {"absent", "deleted"}
            /\ l.env.root_lookup = INIT_OK
            /\ l.env.creation = INIT_SUCCESS)
             => /\ l.returned
                /\ ~l.error.set
                /\ tree[7] = Tombstone

\* C15 witness: [Add k, Update k, Delete k] was handed over on a tree
\* without k and returned no error.
C15_Witness ==
  /\ IsProcess(out_last)
  /\ out_last.returned
  /\ ~out_last.error.set
  /\ Len(out_last.list) = 3
  /\ IsLocalChange(out_last.list[1], ACTION_ADD, "k")
  /\ IsLocalChange(out_last.list[2], ACTION_UPDATE, "k")
  /\ IsLocalChange(out_last.list[3], ACTION_DELETE, "k")
  /\ out_last.before[7].status = "absent"
  /\ tree[7].status = "deleted"

\* The message that stands for an error kind, for a datatype's name; for
\* the kinds of a failed Delete lookup, what follows the message's prefix.
KindMessage(kind, type_str) ==
  CASE kind = "RootMissing" ->
         <<"Failed to look up root node for type ", type_str>>
    [] kind = "EmptyTag" ->
         <<"Failed to create ", type_str, " node: ", "empty tag">>
    [] kind = "EntryAlreadyExists" ->
         <<"Failed to create ", type_str, " node: ", "entry already exists">>
    [] kind = "CouldNotCreate" ->
         <<"Failed to create ", type_str, " node: ", "failed to create entry">>
    [] kind = "SetPredecessorFailed" ->
         <<"Failed to create ", type_str, " node: ",
           "failed to set predecessor">>
    [] kind = "CreateUnknown" ->
         <<"Failed to create ", type_str, " node: ", "unknown error">>
    [] kind = "EncrMissingKeyNigoriMismatch" ->
         <<"Failed to load encrypted entry, missing key and ",
           "nigori mismatch for ", type_str, ".">>
    [] kind = "EncrHaveKeyNigoriMatches" ->
         <<"Failed to load encrypted entry, we have the key ",
           "and the nigori matches (?!) for ", type_str, ".">>
    [] kind = "EncrMissingKeyNigoriMatches" ->
         <<"Failed to load encrypted entry, missing key and ",
           "the nigori matches for ", type_str, ".">>
    [] kind = "EncrHaveKeyNigoriMismatch" ->
         <<"Failed to load encrypted entry, we have the key",
           "(?!) and nigori mismatch for ", type_str, ".">>
    [] kind = "DeleteLocalEmptyTag" ->
         <<"Failed to delete ", type_str, " node. Local data, empty tag.">>
    [] kind = "DeleteBadEntry" ->
         <<"could not find entry matching the lookup criteria.">>
    [] kind = "DeleteAlreadyDeleted" -> <<"entry is already deleted.">>
    [] kind = "DeleteUndecryptable" -> <<"unable to decrypt">>
    [] kind = "DeletePrecondition" ->
         <<"a precondition was not met for calling init.">>
    [] kind = "DeleteUnknown" -> <<"unknown error">>
    [] OTHER -> <<"no such kind">>

EncryptionKinds ==
  {"EncrMissingKeyNigoriMismatch", "EncrHaveKeyNigoriMatches",
   "EncrMissingKeyNigoriMatches", "EncrHaveKeyNigoriMismatch"}

\* The truth table of the encryption diagnostic: A is whether the type is
\* in the encrypted-type set, C whether the cryptographer can decrypt.
EncryptionKind(A, C) ==
  CASE ~A /\ ~C -> "EncrMissingKeyNigoriMismatch"
    [] A /\ C -> "EncrHaveKeyNigoriMatches"
    [] A /\ ~C -> "EncrMissingKeyNigoriMatches"
    [] OTHER -> "EncrHaveKeyNigoriMismatch"

\* The iteration handles an Update whose lookup fails with a result other
\* than PreconditionFailed, EntryNotGood and EntryIsDeleted.
UpdateOtherFailure(step) ==
  /\ step.change.change_type = ACTION_UPDATE
  /\ InitByClientTagLookup(step.before, step.change.sync_data.specifics.type,
                           step.change.sync_data.tag)
       \notin {INIT_OK, INIT_FAILED_PRECONDITION, INIT_FAILED_ENTRY_NOT_GOOD,
               INIT_FAILED_ENTRY_IS_DEL}

UpdatedEntry(step) ==
  step.before[SlotOf(step.change.sync_data.specifics.type,
                     step.change.sync_data.tag)]

\* The four encryption kinds have four different messages.
EncryptionKindsDiffer ==
  \A k1, k2 \in EncryptionKinds :
    k1 # k2 => KindMessage(k1, "Preferences") # KindMessage(k2, "Preferences")

\* C16: an Update whose lookup fails with such a result, on an entry whose
\* specifics carry the encrypted blob, reads the cryptographer once and
\* ends with the error of exactly one encryption kind, the one the truth
\* table gives for (A, C); the four kinds have four different messages; no
\* other iteration ends with an encryption kind.
C16_EncryptionDiagnostic ==
  IsProcess(out_last) =>
    /\ \A i \in 1..Len(out_last.steps) :
         LET step == out_last.steps[i]
             type == step.change.sync_data.specifics.type
             A == type \in out_last.env.encrypted_types
             C == out_last.env.can_decrypt
         IN  IF UpdateOtherFailure(step) /\ UpdatedEntry(step).specifics.has_encrypted
             THEN /\ step.crypto_reads = 1
                  /\ ~step.check_failed
                  /\ step.error.set
                  /\ step.error.message =
                       KindMessage(EncryptionKind(A, C), ModelTypeToString(type))
                  /\ step.handler = <<step.error.message>>
                  /\ \A kind \in EncryptionKinds \ {EncryptionKind(A, C)} :
                       step.error.message
                         # KindMessage(kind, ModelTypeToString(type))
                  /\ step.tree = step.before
             ELSE \A kind \in EncryptionKinds :
                    step.error.set
                      => step.error.message
                           # KindMessage(kind, ModelTypeToString(type))
    /\ EncryptionKindsDiffer

\* C16 witness: an Update of an undecryptable entry returned the kind of
\* "the type is not encrypted, yet the cryptographer has the key".
C16_Witness ==
  /\ IsProcess(out_last)
  /\ out_last.returned
  /\ Len(out_last.steps) >= 1
  /\ LET step == out_last.steps[Len(out_last.steps)]
     IN  /\ UpdateOtherFailure(step)
         /\ UpdatedEntry(step).specifics.has_encrypted
         /\ step.crypto_reads = 1
  /\ out_last.env.can_decrypt
  /\ "PREFERENCES" \notin out_last.env.encrypted_types
  /\ out_last.error.set
  /\ out_last.error.message
       = KindMessage("EncrHaveKeyNigoriMismatch", "Preferences")

AddKinds ==
  {"RootMissing", "EmptyTag", "EntryAlreadyExists", "CouldNotCreate",
   "SetPredecessorFailed", "CreateUnknown"}

\* The kind a non-success result of the creation maps to.
AddKind(result) ==
  CASE result = INIT_FAILED_EMPTY_TAG -> "EmptyTag"
    [] result = INIT_FAILED_ENTRY_ALREADY_EXISTS -> "EntryAlreadyExists"
    [] result = INIT_FAILED_COULD_NOT_CREATE_ENTRY -> "CouldNotCreate"
    [] result = INIT_FAILED_SET_PREDECESSOR -> "SetPredecessorFailed"
    [] OTHER -> "CreateUnknown"

\* The iteration ended with the error of this kind and of no other kind
\* among kinds: the error is built for the change's type, the handler is
\* told its message once.
EndsWithKind(step, kind, kinds) ==
  LET type == step.change.sync_data.specifics.type
      type_str == ModelTypeToString(type)
  IN  /\ step.error = SyncError(KindMessage(kind, type_str), type)
      /\ step.handler = <<step.error.message>>
      /\ \A other \in kinds \ {kind} :
           step.error.message # KindMessage(other, type_str)

\* C17: an Add whose type root is missing ends with RootMissing and never
\* calls the creation; an Add whose root is found calls the creation once,
\* and a result other than success ends with the one kind the table gives
\* for it; a failing Add writes no title, no specifics, nothing.
C17_AddErrorMapping ==
  IsProcess(out_last) =>
    \A i \in 1..Len(out_last.steps) :
      LET step == out_last.steps[i]
          data == step.change.sync_data
      IN  step.change.change_type = ACTION_ADD =>
            /\ step.lookups
                 = <<<<"root tag", ModelTypeToRootTag(data.specifics.type),
                       out_last.env.root_lookup>>>>
            /\ IF out_last.env.root_lookup # INIT_OK
               THEN /\ step.creations = <<>>
                    /\ EndsWithKind(step, "RootMissing", AddKinds)
               ELSE /\ Len(step.creations) = 1
                    /\ step.creations[1][1] = data.specifics.type
                    /\ step.creations[1][2] = data.tag
                    /\ step.creations[1][3] # INIT_SUCCESS
                         => EndsWithKind(step, AddKind(step.creations[1][3]),
                                         AddKinds)
                    /\ step.creations[1][3] = INIT_SUCCESS => ~step.error.set
            /\ step.error.set => /\ step.mutations = <<>>
                                 /\ step.tree = step.before

\* The last iteration of the last call is an Add that ended with this kind.
AddEndedWith(kind) ==
  /\ IsProcess(out_last)
  /\ Len(out_last.steps) >= 1
  /\ LET step == out_last.steps[Len(out_last.steps)]
     IN  /\ step.change.change_type = ACTION_ADD
         /\ step.error.set
         /\ step.error.message
              = KindMessage(kind, ModelTypeToString(
                                    step.change.sync_data.specifics.type))

\* C17 witness: an Add ended with the kind of a creation result the code
\* does not list, and the call returned it.
C17_Witness ==
  /\ AddEndedWith("CreateUnknown")
  /\ out_last.returned
  /\ out_last.error.set

\* C17 witness of the missing root.
C17_WitnessRootMissing ==
  /\ AddEndedWith("RootMissing")
  /\ out_last.steps[Len(out_last.steps)].creations = <<>>

\* The iteration is an Add whose type root was found and whose creation
\* returned success.
SuccessfulAdd(step, env) ==
  /\ step.change.change_type = ACTION_ADD
  /\ env.root_lookup = INIT_OK
  /\ InitUniqueByCreation(step.before, step.change.sync_data.specifics.type,
                          step.change.sync_data.tag, env) = INIT_SUCCESS

\* The iteration is an Update whose client-tag lookup returned Ok.
SuccessfulUpdate(step) ==
  /\ step.change.change_type = ACTION_UPDATE
  /\ InitByClientTagLookup(step.before, step.change.sync_data.specifics.type,
                           step.change.sync_data.tag) = INIT_OK

\* C18: a successful Add and a successful Update leave the target node with
\* the change's title and the change's specifics, end without an error and
\* without a report, and leave every other node as it was; an Update also
\* leaves the node's other fields as they were.
C18_SuccessWritesTitleAndSpecifics ==
  IsProcess(out_last) =>
    \A i \in 1..Len(out_last.steps) :
      LET step == out_last.steps[i]
          data == step.change.sync_data
          id == SlotOf(data.specifics.type, data.tag)
      IN  SuccessfulAdd(step, out_last.env) \/ SuccessfulUpdate(step) =>
            /\ id \in NodeIds
            /\ step.tree[id].title = data.title
            /\ step.tree[id].specifics = data.specifics
            /\ step.tree[id].status = "live"
            /\ ~step.error.set
            /\ step.handler = <<>>
            /\ ~step.notreached /\ ~step.check_failed
            /\ \A other \in NodeIds \ {id} :
                 step.tree[other] = step.before[other]

\* C18 witness: an Add created the entry and an Update of the same list
\* then replaced its title and its specifics, next to another live entry.
C18_Witness ==
  /\ IsProcess(out_last)
  /\ out_last.returned
  /\ Len(out_last.steps) = 2
  /\ SuccessfulAdd(out_last.steps[1], out_last.env)
  /\ SuccessfulUpdate(out_last.steps[2])
  /\ out_last.steps[1].before[7].status = "absent"
  /\ out_last.steps[1].tree[7].title = "hello"
  /\ out_last.steps[2].tree[7].title = "bye"
  /\ out_last.steps[2].tree[7].specifics # out_last.steps[1].tree[7].specifics
  /\ out_last.before[9].status = "live"
  /\ out_last.tree[9] = out_last.before[9]
  /\ ~out_last.error.set

DeleteLookupKinds ==
  {"DeleteBadEntry", "DeleteAlreadyDeleted", "DeleteUndecryptable",
   "DeletePrecondition", "DeleteUnknown"}

\* The kind a failed lookup of a Delete maps to.
DeleteKind(lookup_result) ==
  CASE lookup_result = INIT_FAILED_ENTRY_NOT_GOOD -> "DeleteBadEntry"
    [] lookup_result = INIT_FAILED_ENTRY_IS_DEL -> "DeleteAlreadyDeleted"
    [] lookup_result = INIT_FAILED_DECRYPT_IF_NECESSARY -> "DeleteUndecryptable"
    [] lookup_result = INIT_FAILED_PRECONDITION -> "DeletePrecondition"
    [] OTHER -> "DeleteUnknown"

\* What every message of a failed Delete lookup starts with.
DeletePrefix(data) ==
  <<"Failed to delete ", ModelTypeToString(data.specifics.type),
    IF IsLocal(data) THEN " node. Local data, " ELSE " node. Non-local data, ">>

\* The iteration is a Delete that reaches the lookup.
DeleteWithLookup(step) ==
  /\ step.change.change_type = ACTION_DELETE
  /\ IsLocal(step.change.sync_data) => step.change.sync_data.tag # ""

\* C19: a Delete with Local data looks the node up once, by the change's
\* type and client tag; a Delete with Remote data looks it up once, by the
\* remote id; a lookup that fails ends with the one kind the table gives for
\* its result, reported once, and removes nothing; a lookup that returns Ok
\* removes that node and nothing else, without an error.
C19_DeleteLookupAndMapping ==
  IsProcess(out_last) =>
    \A i \in 1..Len(out_last.steps) :
      LET step == out_last.steps[i]
          data == step.change.sync_data
          type == data.specifics.type
          id == IF IsLocal(data) THEN SlotOf(type, data.tag) ELSE data.id
          result == step.lookups[1][3]
      IN  DeleteWithLookup(step) =>
            /\ Len(step.lookups) = 1
            /\ IF IsLocal(data)
               THEN /\ step.lookups[1][1] = "client tag"
                    /\ step.lookups[1][2] = <<type, data.tag>>
                    /\ result = InitByClientTagLookup(step.before, type,
                                                      data.tag)
               ELSE /\ step.lookups[1][1] = "id"
                    /\ step.lookups[1][2] = data.id
                    /\ result = WriteNodeInitByIdLookup(step.before, data.id)
            /\ IF result = INIT_OK
               THEN /\ step.mutations = <<<<"remove", id>>>>
                    /\ step.before[id].status = "live"
                    /\ step.tree = [step.before EXCEPT ![id] = Tombstone]
                    /\ ~step.error.set
                    /\ step.handler = <<>>
               ELSE /\ step.mutations = <<>>
                    /\ step.tree = step.before
                    /\ step.error
                         = SyncError(DeletePrefix(data)
                                       \o KindMessage(DeleteKind(result), ""),
                                     type)
                    /\ step.handler = <<step.error.message>>
                    /\ \A other \in DeleteLookupKinds \ {DeleteKind(result)} :
                         step.error.message
                           # DeletePrefix(data) \o KindMessage(other, "")

\* The last iteration of the last call is a Delete with a lookup that
\* returned this result.
DeleteLooked(local, result) ==
  /\ IsProcess(out_last)
  /\ Len(out_last.steps) >= 1
  /\ LET step == out_last.steps[Len(out_last.steps)]
     IN  /\ DeleteWithLookup(step)
         /\ IsLocal(step.change.sync_data) = local
         /\ Len(step.lookups) = 1
         /\ step.lookups[1][3] = result

\* C19 witness: a Delete with Remote data found no loadable entry under its
\* id, with a result the code does not list, and the call returned
\* DeleteUnknown.
C19_Witness ==
  /\ DeleteLooked(FALSE, INIT_FAILED_UNLISTED)
  /\ out_last.returned
  /\ out_last.error.set
  /\ out_last.error.message
       = <<"Failed to delete ", "Sessions", " node. Non-local data, ",
           "unknown error">>
  /\ out_last.tree = out_last.before

\* C19 witness of the removal: a Delete with Local data removed the entry.
C19_WitnessRemoved ==
  /\ DeleteLooked(TRUE, INIT_OK)
  /\ out_last.before[7].status = "live"
  /\ out_last.tree[7] = Tombstone
  /\ ~out_last.error.set

\* C19 witnesses of the table's other rows.
C19_WitnessRows ==
  \/ DeleteLooked(FALSE, INIT_FAILED_PRECONDITION)
  \/ DeleteLooked(TRUE, INIT_FAILED_ENTRY_NOT_GOOD)

\* The iteration is a Delete with Local data and an empty tag.
DeleteLocalEmptyTag(step) ==
  /\ step.change.change_type = ACTION_DELETE
  /\ IsLocal(step.change.sync_data)
  /\ step.change.sync_data.tag = ""

----------------------------------------------------------------------------
\* Properties of the read operations and of the transactions (SpecOut)

IsGetSyncData(l) == l.op = "GetSyncDataForType"

\* Every child of the chain loads.
AllChildrenLoad(tr, children) ==
  \A i \in 1..Len(children) : LookupResult(tr[children[i]]) = INIT_OK

\* C27: GetSyncDataForType on a type root that exists, with children that
\* all load, returns an unset error and leaves the caller's list extended by
\* one Remote{id, specifics} per child, in sibling order; on a missing type
\* root it returns a set error of that type and leaves the list as it was.
\* It leaves the tree as it was.
C27_GetSyncDataForType ==
  IsGetSyncData(out_last) =>
    LET children == out_last.store.children
    IN  /\ (out_last.store.root_lookup = INIT_OK
             /\ AllChildrenLoad(tree, children))
            => /\ ~out_last.error.set
               /\ out_last.output
                    = out_last.input
                        \o [i \in 1..Len(children) |->
                              [local |-> FALSE, id |-> children[i],
                               specifics |-> tree[children[i]].specifics]]
        /\ out_last.store.root_lookup # INIT_OK
            => /\ out_last.error.set
               /\ out_last.error.type = out_last.type
               /\ out_last.output = out_last.input
        /\ tree = out_last.before
        /\ out_last.returned

\* C27 witness: the root has the children 9 and 7, in this order, both load,
\* and the caller's list, which held one entry, holds three.
C27_Witness ==
  /\ IsGetSyncData(out_last)
  /\ out_last.store.root_lookup = INIT_OK
  /\ out_last.store.children = <<9, 7>>
  /\ AllChildrenLoad(tree, <<9, 7>>)
  /\ Len(out_last.input) = 1
  /\ Len(out_last.output) = 3
  /\ out_last.output[2].id = 9
  /\ out_last.output[3].id = 7
  /\ out_last.output[2].specifics # out_last.output[3].specifics
  /\ ~out_last.error.set

\* C27 witness of the missing root.
C27_WitnessRootMissing ==
  /\ IsGetSyncData(out_last)
  /\ out_last.store.root_lookup # INIT_OK
  /\ out_last.error.set
  /\ out_last.input # <<>>
  /\ out_last.output = out_last.input

IsOpen(e) == e \in {"open write", "open read"}
IsClose(e) == e = "close"
IsAccess(e) == ~IsOpen(e) /\ ~IsClose(e)

\* The events begin with the opening of a transaction of this kind, and no
\* later event opens a transaction; only the last event may close one.  The
\* transaction opened first is then the one open transaction at every access.
OpenedOnce(events, kind) ==
  /\ Len(events) >= 1
  /\ events[1] = kind
  /\ \A i \in 2..Len(events) : ~IsOpen(events[i])
  /\ \A i \in 2..(Len(events) - 1) : ~IsClose(events[i])

\* The events are those of one transaction of this kind, opened first and
\* closed last, with nothing but accesses in between.
OneTransaction(events, kind) ==
  /\ Len(events) >= 2
  /\ OpenedOnce(events, kind)
  /\ IsClose(events[Len(events)])

\* C28: CryptoReadyIfNecessary(T) returns true exactly when T is not in the
\* encrypted types or the cryptographer is ready; what it reads of the
\* cryptographer it reads inside the one read transaction it opens (the
\* encrypted types always, is_ready() when T is encrypted); it changes
\* neither the tree nor the pending list.
C28_CryptoReadyIfNecessary ==
  out_last.op = "CryptoReadyIfNecessary" =>
    /\ out_last.value
         = (out_last.type \notin out_last.crypto.encrypted_types
              \/ out_last.crypto.is_ready)
    /\ OneTransaction(out_last.events, "open read")
    /\ \A i \in 2..(Len(out_last.events) - 1) :
         out_last.events[i] = "cryptographer"
    /\ Len(out_last.events) \in {3, 4}
    /\ tree = out_last.before
    /\ pending = <<>>
    /\ out_last.returned

\* C28 witness: the type is encrypted and the cryptographer is not ready.
C28_Witness ==
  /\ out_last.op = "CryptoReadyIfNecessary"
  /\ out_last.type \in out_last.crypto.encrypted_types
  /\ ~out_last.crypto.is_ready
  /\ out_last.value = FALSE

\* C28 witness of the other rows: not encrypted and not ready; encrypted
\* and ready.
C28_WitnessTrue ==
  /\ out_last.op = "CryptoReadyIfNecessary"
  /\ out_last.value = TRUE
  /\ \/ (out_last.type \notin out_last.crypto.encrypted_types
          /\ ~out_last.crypto.is_ready)
     \/ (out_last.type \in out_last.crypto.encrypted_types
          /\ out_last.crypto.is_ready)

\* The store accesses and cryptographer reads the iterations observed.
RECURSIVE AccessesOf(_)
AccessesOf(steps) ==
  IF steps = <<>> THEN 0
  ELSE Len(Head(steps).lookups) + Len(Head(steps).creations)
         + Len(Head(steps).mutations) + Head(steps).crypto_reads
         + AccessesOf(Tail(steps))

\* C29: a ProcessSyncChanges call opens one transaction, a write
\* transaction, before anything else; every lookup, creation, mutation and
\* cryptographer read of every iteration happens while it is the one open
\* transaction; no other transaction is opened; a call that returns closes
\* it last.
C29_SingleWriteTransaction ==
  IsProcess(out_last) =>
    LET events == out_last.events
    IN  /\ OpenedOnce(events, "open write")
        /\ IF out_last.returned
           THEN /\ IsClose(events[Len(events)])
                /\ Len(events) = AccessesOf(out_last.steps) + 2
           ELSE /\ \A i \in 1..Len(events) : ~IsClose(events[i])
                /\ Len(events) = AccessesOf(out_last.steps) + 1

\* C29 witness: a call removed an entry in one iteration and read the
\* cryptographer in a later one, and returned.
C29_Witness ==
  /\ IsProcess(out_last)
  /\ out_last.returned
  /\ Len(out_last.steps) >= 2
  /\ out_last.steps[1].mutations # <<>>
  /\ out_last.steps[Len(out_last.steps)].crypto_reads = 1
  /\ out_last.events[1] = "open write"
  /\ out_last.events[Len(out_last.events)] = "close"

ReadOperations ==
  {"GetSyncDataForType", "SyncModelHasUserCreatedNodes",
   "CryptoReadyIfNecessary"}

\* C30: when ProcessSyncChanges returns, with or without an error, the write
\* transaction it opened is closed and no transaction is open; the same for
\* the read transaction of GetSyncDataForType, SyncModelHasUserCreatedNodes
\* and CryptoReadyIfNecessary, which write nothing; every write to the tree
\* is an access made under the write transaction of ProcessSyncChanges, and
\* no other step changes the tree.
C30_TransactionsScoped ==
  /\ (IsProcess(out_last) /\ out_last.returned)
       => OneTransaction(out_last.events, "open write")
  /\ out_last.op \in ReadOperations
       => /\ OneTransaction(out_last.events, "open read")
          /\ \A i \in 1..Len(out_last.events) : out_last.events[i] # "write"
          /\ out_last.returned
  /\ (\E k \in 1..Len(out_last.events) : out_last.events[k] = "write")
       => OpenedOnce(out_last.events, "open write")
  /\ ~IsProcess(out_last) => tree = out_last.before
  /\ IsProcess(out_last)
       => (tree # out_last.before
             => \E k \in 1..Len(out_last.events) : out_last.events[k] = "write")

\* C30 witness: a call wrote to the tree, then returned with an error, and
\* its transaction is closed.
C30_Witness ==
  /\ IsProcess(out_last)
  /\ out_last.returned
  /\ out_last.error.set
  /\ tree # out_last.before
  /\ out_last.events[Len(out_last.events)] = "close"

\* C30 witness of the read operations: GetSyncDataForType returned an error
\* at a child that does not load.
C30_WitnessRead ==
  /\ IsGetSyncData(out_last)
  /\ out_last.store.root_lookup = INIT_OK
  /\ out_last.error.set
  /\ OneTransaction(out_last.events, "open read")

----------------------------------------------------------------------------
\* Further properties of the outbound stage (SpecOut)

\* The lookup results an Update maps to an error kind of its own.
UpdateDirectResults ==
  {INIT_FAILED_PRECONDITION, INIT_FAILED_ENTRY_NOT_GOOD,
   INIT_FAILED_ENTRY_IS_DEL}

UpdateKind(result) ==
  CASE result = INIT_FAILED_PRECONDITION -> "UpdateEmptyTag"
    [] result = INIT_FAILED_ENTRY_NOT_GOOD -> "UpdateBadEntry"
    [] result = INIT_FAILED_ENTRY_IS_DEL -> "UpdateDeletedEntry"
    [] OTHER -> "none"

UpdateKindMessage(kind, type_str) ==
  CASE kind = "UpdateEmptyTag" ->
         <<"Failed to load entry w/empty tag for ", type_str, ".">>
    [] kind = "UpdateBadEntry" ->
         <<"Failed to load bad entry for ", type_str, ".">>
    [] kind = "UpdateDeletedEntry" ->
         <<"Failed to load deleted entry for ", type_str, ".">>
    [] OTHER -> <<"no such kind">>

\* The result of the lookup an Update iteration starts with.
UpdateLookup(step) ==
  InitByClientTagLookup(step.before, step.change.sync_data.specifics.type,
                        step.change.sync_data.tag)

\* The three kinds have three different messages, none of them that of an
\* encryption kind.
UpdateKindsDiffer ==
  /\ \A r1, r2 \in UpdateDirectResults :
       r1 # r2 => UpdateKindMessage(UpdateKind(r1), "Preferences")
                    # UpdateKindMessage(UpdateKind(r2), "Preferences")
  /\ \A r \in UpdateDirectResults, kind \in EncryptionKinds :
       UpdateKindMessage(UpdateKind(r), "Preferences")
         # KindMessage(kind, "Preferences")

\* C31: an Update whose client-tag lookup gives PreconditionFailed ends
\* with the error UpdateEmptyTag, EntryNotGood with UpdateBadEntry,
\* EntryIsDeleted with UpdateDeletedEntry, told once to the error handler;
\* the iteration makes that one lookup, does not read the cryptographer,
\* reaches neither the fatal assertion of the encryption diagnostic nor a
\* NOTREACHED, and writes nothing to the tree.  The three kinds have three
\* different messages, none of them that of an encryption kind.
C31_UpdateDirectErrors ==
  IsProcess(out_last) =>
    /\ \A i \in 1..Len(out_last.steps) :
         LET step == out_last.steps[i]
             type == step.change.sync_data.specifics.type
         IN  (step.change.change_type = ACTION_UPDATE
                /\ UpdateLookup(step) \in UpdateDirectResults)
               => /\ step.error.set
                  /\ step.error.message
                       = UpdateKindMessage(UpdateKind(UpdateLookup(step)),
                                           ModelTypeToString(type))
                  /\ step.error.type = type
                  /\ step.handler = <<step.error.message>>
                  /\ Len(step.lookups) = 1
                  /\ step.crypto_reads = 0
                  /\ ~step.check_failed
                  /\ ~step.notreached
                  /\ step.creations = <<>>
                  /\ step.mutations = <<>>
                  /\ step.tree = step.before
                  /\ out_last.returned
                  /\ out_last.error = step.error
    /\ UpdateKindsDiffer

\* C31 witness: after a Delete removed the preference "k", the Update of
\* "k" found the entry deleted, with a cryptographer that would have
\* answered the diagnostic.
C31_Witness ==
  /\ IsProcess(out_last)
  /\ out_last.returned
  /\ Len(out_last.steps) = 2
  /\ out_last.steps[1].change.change_type = ACTION_DELETE
  /\ out_last.steps[1].mutations # <<>>
  /\ out_last.steps[2].change.change_type = ACTION_UPDATE
  /\ UpdateLookup(out_last.steps[2]) = INIT_FAILED_ENTRY_IS_DEL
  /\ out_last.error.set
  /\ out_last.error.message
       = UpdateKindMessage("UpdateDeletedEntry", "Preferences")

\* C31 witness of the two other rows: the Update of the empty tag, and the
\* Update of an entry the store does not have.
C31_WitnessRows ==
  /\ IsProcess(out_last)
  /\ Len(out_last.steps) = 2
  /\ out_last.steps[1].change.change_type = ACTION_UPDATE
  /\ ~out_last.steps[1].error.set
  /\ out_last.steps[2].change.change_type = ACTION_UPDATE
  /\ UpdateLookup(out_last.steps[2])
       \in {INIT_FAILED_PRECONDITION, INIT_FAILED_ENTRY_NOT_GOOD}
  /\ out_last.error.message
       \in {UpdateKindMessage("UpdateEmptyTag", "Preferences"),
            UpdateKindMessage("UpdateBadEntry", "Preferences")}

----------------------------------------------------------------------------
\* Further properties of the startup controller (SpecSC)

\* C32: at any time at most one fallback task with a live receiver is on
\* the message loop; a task is posted only by the StartUp call that sets
\* start_up_time_ (the first of the lifetime), on the Deferred path with
\* deferred startup enabled, when no live task is pending; a TryStart call
\* made with start_up_time_ set posts nothing, leaves the pending tasks as
\* they are and leaves start_up_time_ as it is.
C32_FallbackTimerUnique ==
  [][ /\ Cardinality(ValidTasks(tasks')) <= 1
      /\ last'.posted
           => /\ start_up_time_ = NullTime
              /\ start_up_time_' = now
              /\ last'.start_up = STARTUP_BACKEND_DEFERRED
              /\ deferred_switch
              /\ ValidTasks(tasks) = {}
              /\ ValidTasks(tasks')
                   = {[deadline |-> now + kDeferredInitFallbackSeconds,
                       valid |-> TRUE]}
      /\ ~last'.posted => tasks' \subseteq tasks \cup
                             {[t EXCEPT !.valid = FALSE] : t \in tasks}
      /\ (IsTryStartCall(last') /\ start_up_time_ # NullTime)
           => /\ ~last'.posted
              /\ tasks' = tasks
              /\ start_up_time_' = start_up_time_
    ]_vars

\* C32 witness: TryStart was called again in the deferred window, later
\* than the call that deferred; it took the Deferred path, posted nothing,
\* and the one task of the first call is pending.
C32_Witness ==
  /\ IsTryStartCall(last)
  /\ deferred_switch
  /\ last.start_up = STARTUP_BACKEND_DEFERRED
  /\ ~last.posted
  /\ start_up_time_ # NullTime
  /\ start_up_time_ < now
  /\ start_backend_time_ = NullTime
  /\ ValidTasks(tasks)
       = {[deadline |-> start_up_time_ + kDeferredInitFallbackSeconds,
           valid |-> TRUE]}

\* C32 witness of a second lifetime: the task of the lifetime before Reset
\* is still on the message loop, cancelled, next to the live one.
C32_WitnessSecondLifetime ==
  /\ IsTryStartCall(last)
  /\ last.posted
  /\ Cardinality(tasks) = 2
  /\ Cardinality(ValidTasks(tasks)) = 1

\* C33: without the command-line switch, OnDataTypeRequestsSyncStartup
\* changes no field and no task, records no sample, and calls neither
\* TryStart nor StartUp nor start_backend, in whatever state it is called.
C33_FlareIgnoredWithoutSwitch ==
  [][ (IsFlare(last') /\ ~deferred_switch)
        => /\ UNCHANGED <<ctlFields, tasks>>
           /\ last'.histograms = {}
           /\ last'.try_start = "not called"
           /\ last'.start_up = "not called"
           /\ ~last'.ran_backend
           /\ ~last'.posted
           /\ ~last'.dcheck_failed
    ]_vars

\* C33 witness: the flare arrived, without the switch, in a state where a
\* TryStart would have started the backend.
C33_Witness ==
  /\ IsFlare(last)
  /\ ~deferred_switch
  /\ PreChecksPass
  /\ sync_prefs_.HasSyncSetupCompleted
  /\ start_up_time_ = NullTime
  /\ start_backend_time_ = NullTime
  /\ ~received_start_request_

\* TryStart, called with the pre-checks passing, gets to the part of
\* StartUp that starts the backend: StartUp(Immediate), or StartUp(Deferred)
\* without the command-line switch.  TryStart changes none of the values
\* read here.
TakesImmediatePath ==
  IF sync_prefs_.HasSyncSetupCompleted
  THEN received_start_request_ \/ ~deferred_switch
  ELSE setup_in_progress_ \/ auto_start_enabled_

\* C34 (as claimed): TryStart returns true if and only if the backend is
\* started when it returns.
C34_ReturnsBackendState ==
  IsTryStartCall(last)
    => (last.try_start = "true" <=> start_backend_time_ # NullTime)

\* C34 (amended): TryStart returns true only if the backend is started when
\* it returns, and it returns true exactly when its pre-checks pass and it
\* takes the path of StartUp that starts the backend; with the backend
\* already started it still returns false when a pre-check fails, when
\* setup is neither complete nor in progress nor auto-started, and when it
\* takes the Deferred path with deferred startup enabled.
C34_TrueOnlyIfStarted ==
  IsTryStartCall(last)
    => /\ last.try_start \in {"true", "false"}
       /\ last.try_start = "true" => start_backend_time_ # NullTime
       /\ last.try_start = "true" <=> (PreChecksPass /\ TakesImmediatePath)

\* C34 witness: TryStart was called with the backend started earlier, its
\* pre-checks passed, it took the Immediate branch and returned true without
\* starting the backend again.
C34_Witness ==
  /\ IsTryStartCall(last)
  /\ PreChecksPass
  /\ last.start_up = STARTUP_IMMEDIATE
  /\ last.try_start = "true"
  /\ ~last.ran_backend
  /\ start_backend_time_ # NullTime
  /\ start_backend_time_ < now

\* C34 witness of the false return with the backend started: the pre-checks
\* pass, setup is complete, no start request was received and deferred
\* startup is enabled.
C34_WitnessStartedButFalse ==
  /\ IsTryStartCall(last)
  /\ PreChecksPass
  /\ last.start_up = STARTUP_BACKEND_DEFERRED
  /\ deferred_switch
  /\ last.try_start = "false"
  /\ start_backend_time_ # NullTime

\* C35: whenever start_up_time_ is set, start_backend_time_ is unset and no
\* start request was received, a fallback task with a live receiver is on
\* the message loop.
C35_NoStuckDeferredState ==
  (start_up_time_ # NullTime /\ start_backend_time_ = NullTime
     /\ ~received_start_request_)
    => ValidTasks(tasks) # {}

\* C35 witness: in the second lifetime of the controller, deferred, the
\* fallback deadline of the first lifetime has passed and its task is gone;
\* the task of the second lifetime is pending.
C35_Witness ==
  /\ start_up_time_ # NullTime
  /\ start_backend_time_ = NullTime
  /\ ~received_start_request_
  /\ FirstInstant + kDeferredInitFallbackSeconds <= now
  /\ FirstInstant < start_up_time_
  /\ tasks = {[deadline |-> start_up_time_ + kDeferredInitFallbackSeconds,
               valid |-> TRUE]}

\* C36: start_backend_time_ set implies start_up_time_ set, and not later
\* than it; the state string is "Started" exactly when start_backend_time_
\* is set, "Deferred" exactly when only start_up_time_ is, "Not started"
\* exactly when neither is: "Started" is never shown with start_up_time_
\* unset.
C36_StartedImpliesStartUpTime ==
  /\ start_backend_time_ # NullTime
       => (start_up_time_ # NullTime /\ start_up_time_ <= start_backend_time_)
  /\ GetBackendInitializationStateString
       \in {"Not started", "Deferred", "Started"}
  /\ GetBackendInitializationStateString = "Started"
       <=> (start_up_time_ # NullTime /\ start_backend_time_ # NullTime)
  /\ GetBackendInitializationStateString = "Deferred"
       <=> (start_up_time_ # NullTime /\ start_backend_time_ = NullTime)
  /\ GetBackendInitializationStateString = "Not started"
       <=> (start_up_time_ = NullTime /\ start_backend_time_ = NullTime)

\* C36 witness: the backend was started by a start request, some time after
\* the start was deferred.
C36_Witness ==
  /\ GetBackendInitializationStateString = "Started"
  /\ start_up_time_ # NullTime
  /\ start_up_time_ < start_backend_time_
  /\ last.ran_backend

\* C36 witness of the other path: the first StartUp of the lifetime was
\* Immediate and set both timestamps.
C36_WitnessImmediate ==
  /\ IsTryStartCall(last)
  /\ last.start_up = STARTUP_IMMEDIATE
  /\ last.ran_backend
  /\ start_up_time_ = now
  /\ start_backend_time_ = now
  /\ GetBackendInitializationStateString = "Started"

\* C37: no run of the fallback handler fails an assertion; a run that finds
\* the backend not started finds start_up_time_ set, at least the fallback
\* timeout ago, and records that time as TimeDeferred.
C37_FallbackAssertionHolds ==
  IsFallbackRun(last)
    => /\ ~last.dcheck_failed
       /\ last.try_start # "not called"
            => /\ start_up_time_ # NullTime
               /\ start_up_time_ + kDeferredInitFallbackSeconds <= now
               /\ <<"Sync.Startup.TimeDeferred", now - start_up_time_>>
                    \in last.histograms

\* C37 witness: the fallback task of a second lifetime ran with the backend
\* not started, while the cancelled task of the first lifetime was still on
\* the message loop.
C37_Witness ==
  /\ IsFallbackRun(last)
  /\ last.try_start # "not called"
  /\ tasks # {}
  /\ ValidTasks(tasks) = {}
  /\ start_up_time_ # NullTime

\* C38: received_start_request_ becomes true only in a flare or a run of
\* the fallback handler that gets to TryStart, and it is then true whatever
\* that TryStart returns; once true, only Reset makes it false; a TryStart
\* called with it true, the pre-checks passing and setup complete calls
\* StartUp(Immediate), posts no task, returns true, and leaves the backend
\* started (it starts it now unless it was started before).
C38_StartRequestSticky ==
  [][ /\ (received_start_request_ /\ last'.op # "Reset")
           => received_start_request_'
      /\ (~received_start_request_ /\ received_start_request_')
           => (IsFlare(last') \/ IsFallbackRun(last'))
      /\ ((IsFlare(last') \/ IsFallbackRun(last'))
            /\ last'.try_start # "not called")
           => received_start_request_'
      /\ (last'.try_start # "not called" /\ received_start_request_'
            /\ PreChecksPass /\ sync_prefs_.HasSyncSetupCompleted)
           => /\ last'.start_up = STARTUP_IMMEDIATE
              /\ last'.try_start = "true"
              /\ ~last'.posted
              /\ tasks' \subseteq tasks
              /\ start_backend_time_' # NullTime
              /\ start_backend_time_ = NullTime
                   => (last'.ran_backend /\ start_backend_time_' = now)
    ]_vars

\* C38 witness: the first StartUp of the lifetime, made by a direct TryStart
\* call, was Immediate although setup is complete and deferred startup is
\* enabled: the request was set by an earlier flare whose TryStart failed
\* its pre-checks.
C38_Witness ==
  /\ IsTryStartCall(last)
  /\ deferred_switch
  /\ sync_prefs_.HasSyncSetupCompleted
  /\ received_start_request_
  /\ last.start_up = STARTUP_IMMEDIATE
  /\ last.ran_backend
  /\ start_up_time_ = now
  /\ start_backend_time_ = now
  /\ tasks = {}

----------------------------------------------------------------------------
\* The branches of ProcessSyncChanges marked NOTREACHED (SpecOut)

\* Every change of the list is an Add, an Update or a Delete of a specified
\* datatype.
WellFormedList(list) ==
  \A i \in 1..Len(list) :
    /\ list[i].change_type \in {ACTION_ADD, ACTION_UPDATE, ACTION_DELETE}
    /\ list[i].sync_data.specifics.type \in ModelTypes

\* C39 (as claimed): in a call of ProcessSyncChanges on a list of Adds,
\* Updates and Deletes of specified datatypes, no iteration executes a
\* NOTREACHED(): no Delete ends with an error, no Add fails to look up its
\* type root, and no Delete of local data has an empty tag.
C39_NoUnreachableBranchReached ==
  (IsProcess(out_last) /\ WellFormedList(out_last.list))
    => \A i \in 1..Len(out_last.steps) :
         LET step == out_last.steps[i]
             data == step.change.sync_data
         IN  /\ ~step.notreached
             /\ step.change.change_type = ACTION_DELETE
                  => /\ ~step.error.set
                     /\ ~(data.local /\ data.tag = "")
             /\ step.change.change_type = ACTION_ADD
                  => (step.error.set
                        => step.error.message
                             # KindMessage("RootMissing",
                                           ModelTypeToString(
                                             data.specifics.type)))

----------------------------------------------------------------------------
\* GetSyncDataForType and the caller's list (SpecOut)

\* The children of the chain that do not load.
FailingChildren(tr, children) ==
  {i \in 1..Len(children) : LookupResult(tr[children[i]]) # INIT_OK}

\* The number of children the traversal visits before it stops: all of
\* them, or those before the first that does not load.
VisitedBeforeFailure(tr, children) ==
  IF FailingChildren(tr, children) = {} THEN Len(children)
  ELSE (CHOOSE i \in FailingChildren(tr, children) :
          \A j \in FailingChildren(tr, children) : i <= j) - 1

\* C40: GetSyncDataForType leaves every entry the list held at entry where
\* it was and only adds entries behind them; when the type root exists and
\* a child of the chain does not load, it returns a set error of the type,
\* and the list holds, behind the entries it held at entry, the entries of
\* the children before that child, in sibling order, and nothing else.
C40_OnlyAppends ==
  IsGetSyncData(out_last) =>
    LET children == out_last.store.children
        input == out_last.input
        output == out_last.output
        n == IF out_last.store.root_lookup = INIT_OK
             THEN VisitedBeforeFailure(tree, children) ELSE 0
    IN  /\ Len(output) = Len(input) + n
        /\ \A i \in 1..Len(input) : output[i] = input[i]
        /\ \A i \in 1..n :
             output[Len(input) + i]
               = [local |-> FALSE, id |-> children[i],
                  specifics |-> tree[children[i]].specifics]
        /\ (out_last.store.root_lookup = INIT_OK
              /\ FailingChildren(tree, children) # {})
             => /\ out_last.error.set
                /\ out_last.error.type = out_last.type
                /\ out_last.error.message
                     = <<"Failed to fetch child node for type ",
                         ModelTypeToString(out_last.type), ".">>
        /\ out_last.error.set
             <=> (out_last.store.root_lookup # INIT_OK
                    \/ FailingChildren(tree, children) # {})

\* C40 witness: the list held one entry; the first child, 9, loads and the
\* second, 7, does not: the call returned an error and the list holds the
\* old entry and the entry of child 9.
C40_Witness ==
  /\ IsGetSyncData(out_last)
  /\ out_last.store.root_lookup = INIT_OK
  /\ out_last.store.children = <<9, 7>>
  /\ FailingChildren(tree, <<9, 7>>) = {2}
  /\ Len(out_last.input) = 1
  /\ Len(out_last.output) = 2
  /\ out_last.output[1] = out_last.input[1]
  /\ out_last.output[2].id = 9
  /\ out_last.error.set

====
